---- MODULE Spec2Model ----
(***************************************************************************)
(* Model of the checkpointed ingestion code of message-extractor:          *)
(*   - ChunkedProcessor  (src/src/utils/chunked_processor.py)              *)
(*   - safe_file_write   (src/src/utils/error_handling.py)                 *)
(*   - RobustImporter    (src/scripts/robust_import.py)                    *)
(*   - IsolatedLLMProcessor and handle_extraction_error (same files)       *)
(*   - the chat database (src/scripts/create_database.py) and the two      *)
(*     WhatsApp importers (src/import_whatsapp_to_database.py,             *)
(*     src/scripts/import_whatsapp.py)                                     *)
(*   - contact resolution of the calendar importers                        *)
(*     (src/scripts/import_calendar_events.py,                             *)
(*     src/scripts/import_googletakeout_calendar.py), _normalize_phone,    *)
(*     validate_contact (src/src/utils/validators.py)                      *)
(*   - retry_with_backoff (src/src/utils/error_handling.py)                *)
(*   - safe_db_connection (src/src/utils/error_handling.py)                *)
(*   - UnifiedLedger (src/schema.py), GmailExtractor._extract_body         *)
(*     (src/src/extractors/gmail_extractor.py), validate_message           *)
(*   - the INSERT INTO messages of the WhatsApp, iMessage, email and       *)
(*     takeout calendar importers and the ids they give their rows         *)
(* Memory of the running process and the files on disk are separate        *)
(* variables, so that a killed process loses the first and keeps the       *)
(* second.  The processor is constructed with a result_file.               *)
(*                                                                         *)
(* Specifications:                                                         *)
(*   Spec        processes of ChunkedProcessor one after the other on the  *)
(*               same files, starting from an empty directory              *)
(*   SpecFaulty  the same on a checkpoint store that may refuse writes     *)
(*   SpecRun     one process, on an empty directory or on the files of an  *)
(*               earlier completed call                                    *)
(*   SpecRobust  RobustImporter                                            *)
(*   SpecGuards  one process of process_chunked, of an IsolatedLLMProcessor*)
(*               call, or of a function under handle_extraction_error      *)
(*   SpecRerun   one WhatsApp export imported again and again into one     *)
(*               database                                                  *)
(*   SpecIngest  any WhatsApp exports imported one after the other into    *)
(*               one database                                              *)
(*   SpecCeiling a chat of 0 to 9 participants imported by either importer *)
(*   SpecResolve persons resolved one after the other against contacts     *)
(*   SpecOrders  three persons sharing a phone and an email, in any order  *)
(*   SpecPhone   one phone string normalized, and the result again         *)
(*   SpecRace    two importers resolving one alias on one database file    *)
(*   SpecCalendar calendar events imported into one database, or one       *)
(*               contact dictionary validated                              *)
(*   SpecRetry   one call of a function under retry_with_backoff           *)
(*   SpecSafeDb  one with-block under safe_db_connection                   *)
(*   SpecLedger  messages added to a UnifiedLedger and exported, e-mail    *)
(*               files parsed into it, or one message dictionary validated *)
(*   SpecInsert  one importer inserting the messages of one source         *)
(***************************************************************************)
EXTENDS Integers, Sequences, FiniteSets, TLC

\* ---------------------------------------------------------------- bounds
MaxItems == 3        \* length of the input list handed to process_chunked
MaxChunk == 2        \* chunk_size ranges over 1..MaxChunk
MaxInterval == 2     \* save_interval ranges over 1..MaxInterval
MaxRuns == 2         \* processes started one after the other on the same files

Items == 1..MaxItems

VARIABLES
    chunk_size,       \* self.chunk_size
    save_interval,    \* self.save_interval
    isolated_errors,  \* self.isolated_errors
    progress,         \* self.progress (ChunkProgress), in memory
    current_chunk,    \* local current_chunk of process_chunked
    item_count,       \* local item_count
    idx,              \* position of the for loop in items_list (next item)
    resume,           \* argument resume the caller passes to process_chunked
    processed_set,    \* local processed_set, taken once at the start
    pc,               \* position of the process in process_chunked
    ckpt_open,        \* safe_file_open holds progress.json open in mode 'w'
    outcome,          \* what process_func did for each item in this run
    checkpoint_file,  \* progress.json on disk
    result_file,      \* the results file on disk, a sequence of lines
    store_faulty,     \* the checkpoint store may refuse writes
    ckpt_errors,      \* "Failed to write" errors logged by checkpoint writes, this run
    run,              \* number of the process (1 = the first on these files)
    kills_only,       \* every earlier process ended by being killed
    \* RobustImporter (scripts/robust_import.py)
    r_batch_size,     \* argument batch_size of import_with_checkpoints
    r_pc,             \* position of the importer process
    r_remaining,      \* local remaining: the items not yet completed
    r_pos,            \* position of the for loop in remaining (next entry)
    r_completed,      \* self.checkpoint.checkpoint['completed'], in memory
    r_file,           \* the checkpoint file of CheckpointManager on disk
    r_pending,        \* items whose rows are written in the open transaction
    r_committed,      \* items whose rows are committed in the database
    r_run,            \* number of the importer process
    \* IsolatedLLMProcessor (src/utils/chunked_processor.py)
    l_max_retries,    \* self.max_retries
    l_has_fallback,   \* self.fallback_func is not None
    l_continue,       \* self.continue_on_error
    l_pc,             \* position of the call in __call__
    l_attempt,        \* loop variable attempt
    l_last_error,     \* local last_error is not None
    l_calls,          \* calls of llm_func made by this __call__
    l_fb_calls,       \* calls of fallback_func made by this __call__
    l_result,         \* how __call__ ended for its caller
    l_func,           \* what the last call of llm_func or fallback_func did
    \* a function wrapped by handle_extraction_error (src/utils/error_handling.py)
    h_continue,       \* argument continue_on_error
    h_func,           \* what the wrapped function did when called
    h_result,         \* what the wrapper did for its caller
    \* the chat database and a WhatsApp importer process
    d_importer,       \* which importer runs: import_whatsapp_to_database.py or scripts/import_whatsapp.py
    db,               \* the tables contacts, conversations, conversation_participants, messages
    d_source,         \* self.chat_data: the export the importer was given
    d_pc,             \* position of the importer process
    d_run,            \* number of the importer process on this database
    d_outcomes,       \* how import_messages ended for the messages of the last import
    d_seen,           \* message ids an INSERT INTO messages was executed for
    d_again,          \* message ids an INSERT was executed for more than once
    d_first,          \* the tables as the first import left them
    \* the contacts table and a process resolving persons against it
    k_pc,             \* position of the process
    k_contacts,       \* the rows of contacts; contact_id is the position
    k_person,         \* the Contact handed to the last resolve
    k_ret,            \* the contact_id the last resolve returned
    k_count,          \* resolves made by this process
    k_todo,           \* the persons still to be processed
    \* a call of _normalize_phone and a second call on its result
    p_pc,             \* position of the caller
    p_phone,          \* argument phone
    p_result,         \* what the call returned
    p_again,          \* what the call on the result returned
    \* two importer processes, each on its own connection to one database file
    q_pc,             \* position of each process in its resolve
    q_person,         \* the Contact each process resolves
    q_committed,      \* the committed rows of contacts
    q_pending,        \* rows each process inserted in its open transaction
    q_lock,           \* the process that holds the write lock of the file
    q_ret,            \* the contact_id each resolve returned
    q_error,          \* the exception each resolve raised
    \* a calendar importer process, and a caller of validate_contact
    e_pc,             \* position of the process
    e_db,             \* the tables contacts, conversations, messages, calendar_events, conversation_participants
    e_message,        \* the Message handed to the last _import_calendar_message
    e_result,         \* how the last _import_calendar_message ended
    e_count,          \* messages handed to _import_calendar_message
    e_checked,        \* the contact dictionary handed to validate_contact
    e_errors,         \* the list validate_contact returned
    \* a call of a function wrapped by retry_with_backoff
    b_pc,             \* position of the call in wrapper
    b_max_attempts,   \* argument max_attempts
    b_initial_delay,  \* argument initial_delay
    b_max_delay,      \* argument max_delay
    b_backoff_factor, \* argument backoff_factor
    b_on_retry,       \* on_retry is not None
    b_attempt,        \* loop variable attempt
    b_delay,          \* local delay
    b_outcomes,       \* what each call of func did, in order
    b_sleeps,         \* the arguments of the calls of time.sleep, in order
    b_result,         \* how wrapper ended for its caller
    \* a with-block entered through safe_db_connection
    s_pc,             \* position in safe_db_connection
    s_exists,         \* db_path.exists()
    s_file,           \* rows the database file holds (committed)
    s_before,         \* rows of the file when the block was entered
    s_pending,        \* rows written on conn and not committed
    s_written,        \* rows the block has written
    s_open,           \* conn is an open connection
    s_block,          \* how the block ended
    s_raise,          \* the exception in flight
    s_exit,           \* how the with statement ended for its caller
    \* a UnifiedLedger, the messages handed to it and its export
    g_pc,             \* "open" until the ledger is exported
    g_start_date,     \* self.start_date, 0 for None
    g_messages,       \* self.messages
    g_registry,       \* self.contact_registry, as its items
    g_arg,            \* the message last handed to add_message
    g_source,         \* where that message came from
    g_added,          \* how that call of add_message ended
    g_timeline,       \* what generate_timeline gave the export
    g_checked,        \* the message dictionary handed to validate_message
    g_errors,         \* the list validate_message returned
    \* an importer inserting the messages of its source into the messages table
    i_pc,             \* position of the importer's loop
    i_importer,       \* which importer runs
    i_items,          \* the source's messages, in the order the source holds them
    i_next,           \* index of the next message the loop handles
    i_table,          \* contacts and messages rows of the database
    i_log             \* what the loop recorded for each message it handled

vars == << chunk_size, save_interval, isolated_errors, progress, current_chunk,
           item_count, idx, resume, processed_set, pc, ckpt_open, outcome,
           checkpoint_file, result_file, store_faulty, ckpt_errors,
           run, kills_only,
           r_batch_size, r_pc, r_remaining, r_pos, r_completed, r_file,
           r_pending, r_committed, r_run,
           l_max_retries, l_has_fallback, l_continue, l_pc, l_attempt,
           l_last_error, l_calls, l_fb_calls, l_result, l_func,
           h_continue, h_func, h_result,
           d_importer, db, d_source, d_pc, d_run, d_outcomes, d_seen, d_again,
           d_first,
           k_pc, k_contacts, k_person, k_ret, k_count, k_todo,
           p_pc, p_phone, p_result, p_again,
           q_pc, q_person, q_committed, q_pending, q_lock, q_ret, q_error,
           e_pc, e_db, e_message, e_result, e_count, e_checked, e_errors,
           b_pc, b_max_attempts, b_initial_delay, b_max_delay, b_backoff_factor, b_on_retry, b_attempt, b_delay, b_outcomes, b_sleeps, b_result,
           s_pc, s_exists, s_file, s_before, s_pending, s_written, s_open, s_block, s_raise, s_exit,
           g_pc, g_start_date, g_messages, g_registry, g_arg, g_source, g_added, g_timeline, g_checked, g_errors,
           i_pc, i_importer, i_items, i_next, i_table, i_log >>

cvars == << chunk_size, save_interval, isolated_errors, progress, current_chunk,
            item_count, idx, resume, processed_set, pc, ckpt_open, outcome,
            checkpoint_file, result_file, store_faulty, ckpt_errors,
            run, kills_only >>

rvars == << r_batch_size, r_pc, r_remaining, r_pos, r_completed, r_file,
            r_pending, r_committed, r_run >>

lvars == << l_max_retries, l_has_fallback, l_continue, l_pc, l_attempt,
            l_last_error, l_calls, l_fb_calls, l_result, l_func >>

hvars == << h_continue, h_func, h_result >>

dvars == << d_importer, db, d_source, d_pc, d_run, d_outcomes, d_seen, d_again,
            d_first >>

kvars == << k_pc, k_contacts, k_person, k_ret, k_count, k_todo >>

\* The components modelled after the chat database.
pvars == << p_pc, p_phone, p_result, p_again >>

qvars == << q_pc, q_person, q_committed, q_pending, q_lock, q_ret, q_error >>

evars == << e_pc, e_db, e_message, e_result, e_count, e_checked, e_errors >>

bvars == << b_pc, b_max_attempts, b_initial_delay, b_max_delay, b_backoff_factor, b_on_retry, b_attempt, b_delay, b_outcomes, b_sleeps, b_result >>

svars == << s_pc, s_exists, s_file, s_before, s_pending, s_written, s_open, s_block, s_raise, s_exit >>

gvars == << g_pc, g_start_date, g_messages, g_registry, g_arg, g_source, g_added, g_timeline, g_checked, g_errors >>

ivars == << i_pc, i_importer, i_items, i_next, i_table, i_log >>

ovars == << kvars, pvars, qvars, evars, bvars, svars, gvars, ivars >>

\* ------------------------------------------------------------ pure helpers

\* get_item_id: the inputs are items with distinct ids; item k has id k.
get_item_id(item) == item

\* ChunkProgress() with its defaults and __post_init__.
ChunkProgress ==
    [ processed_items |-> 0, successful_items |-> 0, failed_items |-> 0,
      skipped_items |-> 0, current_chunk |-> 0,
      processed_ids |-> << >>, failed_ids |-> << >> ]

SeqToSet(s) == { s[k] : k \in 1..Len(s) }

\* The last n elements of s (s[-n:] in Python, n >= 1).
LastN(s, n) == IF Len(s) <= n THEN s ELSE SubSeq(s, Len(s) - n + 1, Len(s))

\* Contents of progress.json.
NoFile == [ kind |-> "absent", data |-> ChunkProgress ]
PartialFile == [ kind |-> "partial", data |-> ChunkProgress ]
CompleteFile(p) == [ kind |-> "complete", data |-> p ]

\* One line of the results file: json.dumps(result) of one element of the
\* batch handed to save_results.  An element is one result, or (the
\* save_interval flush) a list of results.
ResultLine(id) == [ wrapped |-> FALSE, ids |-> << id >> ]
BatchLine(batch) == [ wrapped |-> TRUE, ids |-> batch ]

RECURSIVE LinesOf(_)
LinesOf(batch) ==
    IF batch = << >> THEN << >>
    ELSE << ResultLine(Head(batch)) >> \o LinesOf(Tail(batch))

\* save_results(results_batch): append one line per element.
save_results(file, batch) == file \o LinesOf(batch)

\* The save_interval flush: save_results([current_chunk[-save_interval:]]).
save_interval_flush(file, chunk, n) == Append(file, BatchLine(LastN(chunk, n)))

\* load_checkpoint: the progress a new processor starts from.
load_checkpoint(file) ==
    IF file.kind = "complete" THEN file.data ELSE ChunkProgress

\* A resume filter that never skips.
already_processed_never(res, id, pset) == FALSE

\* Line 206: is the item skipped as already processed?
already_processed(res, id, pset) == res /\ id \in pset

\* Lines 214-218 and 227: a result that is not None.
item_succeeded(p, id) ==
    [ p EXCEPT !.successful_items = @ + 1,
               !.processed_ids = Append(@, id),
               !.processed_items = @ + 1 ]

\* Lines 224-227: process_func returned None.
item_none(p) ==
    [ p EXCEPT !.skipped_items = @ + 1, !.processed_items = @ + 1 ]

\* A failure handler that counts the failure and forgets the id.
item_failed_no_id(p, id) ==
    [ p EXCEPT !.failed_items = @ + 1, !.processed_items = @ + 1 ]

\* Lines 236-239: process_func raised an ordinary exception.
item_failed(p, id) ==
    [ p EXCEPT !.failed_items = @ + 1,
               !.failed_ids = Append(@, id),
               !.processed_items = @ + 1 ]

\* Lines 206-208: the item is skipped on resume.
item_skipped(p) == [ p EXCEPT !.skipped_items = @ + 1 ]

\* A failure handler that always continues.
after_failure_continue(isolated) == "loop"

\* Lines 241-250: where the loop goes after an ordinary exception.
after_failure(isolated) == IF isolated THEN "loop" ELSE "abort_ckpt"

\* Lines 253-254: is the chunk complete after this item?
chunk_complete(count, size) == count >= size

\* Line 254: current_chunk += 1 at a chunk boundary.
chunk_boundary(p, count, size) ==
    IF chunk_complete(count, size) THEN [ p EXCEPT !.current_chunk = @ + 1 ] ELSE p

\* Line 221: is the save_interval flush due?
flush_due(chunk, n) == Len(chunk) >= n

\* The position after a save_checkpoint call returns.
after_checkpoint(at) ==
    CASE at = "chunk_ckpt" -> "chunk_results"    \* line 262 -> 263
      [] at = "final_ckpt" -> "done"             \* line 274 -> 283
      [] at = "int_ckpt"   -> "int_results"      \* line 232 -> 233
      [] at = "abort_ckpt" -> "outer_ckpt"       \* line 249 -> 250 -> 285
      [] at = "outer_ckpt" -> "outer_results"    \* line 287 -> 288
      [] OTHER -> at

\* The position after a save_results call of the epilogues returns.
after_results(at) ==
    CASE at = "chunk_results" -> "loop"          \* lines 263-267
      [] at = "final_results" -> "final_ckpt"    \* lines 270-274
      [] at = "int_results"   -> "interrupted"   \* lines 233-234
      [] at = "outer_results" -> "aborted"       \* lines 288-290
      [] OTHER -> at

CkptPcs == { "chunk_ckpt", "final_ckpt", "int_ckpt", "abort_ckpt", "outer_ckpt" }
ResultPcs == { "chunk_results", "final_results", "int_results", "outer_results" }
RunningPcs == { "loop" } \cup CkptPcs \cup ResultPcs
EndPcs == { "done", "interrupted", "aborted", "killed" }

\* The ids whose results are in the results file, in file order.
RECURSIVE written_ids(_)
written_ids(file) ==
    IF file = << >> THEN << >> ELSE Head(file).ids \o written_ids(Tail(file))

Count(s, x) == Cardinality({ k \in 1..Len(s) : s[k] = x })

\* ------------------------------------------------------------------ Init
\* The state after the first ChunkedProcessor is constructed: no files yet.
InitWith(faulty) ==
    /\ chunk_size \in 1..MaxChunk
    /\ save_interval \in 1..MaxInterval
    /\ isolated_errors \in BOOLEAN
    /\ progress = ChunkProgress
    /\ current_chunk = << >>
    /\ item_count = 0
    /\ idx = 1
    /\ resume \in BOOLEAN
    /\ processed_set = {}
    /\ pc = "idle"
    /\ ckpt_open = FALSE
    /\ outcome = [ i \in Items |-> "-" ]
    /\ checkpoint_file = NoFile
    /\ result_file = << >>
    /\ store_faulty = faulty
    /\ ckpt_errors = 0
    /\ run = 1
    /\ kills_only = TRUE

\* The importer before it is constructed.
RobustIdle ==
    /\ r_batch_size = 1
    /\ r_pc = "off"
    /\ r_remaining = << >>
    /\ r_pos = 1
    /\ r_completed = << >>
    /\ r_file = << >>
    /\ r_pending = {}
    /\ r_committed = {}
    /\ r_run = 1

\* No IsolatedLLMProcessor is constructed.
LLMOff ==
    /\ l_max_retries = 0
    /\ l_has_fallback = FALSE
    /\ l_continue = TRUE
    /\ l_pc = "off"
    /\ l_attempt = 0
    /\ l_last_error = FALSE
    /\ l_calls = 0
    /\ l_fb_calls = 0
    /\ l_result = "-"
    /\ l_func = "-"

\* No function is wrapped by handle_extraction_error.
HandlerOff ==
    /\ h_continue = TRUE
    /\ h_func = "off"
    /\ h_result = "-"

\* The tables as create_database.py creates them: no row.
EmptyDb ==
    [ contacts |-> << >>, conversations |-> << >>,
      participants |-> << >>, messages |-> << >> ]

\* No importer process runs on the chat database.
DbOff ==
    /\ d_importer = "off"
    /\ db = EmptyDb
    /\ d_source = << >>
    /\ d_pc = "off"
    /\ d_run = 0
    /\ d_outcomes = {}
    /\ d_seen = {}
    /\ d_again = {}
    /\ d_first = EmptyDb

\* A value Python writes None and SQLite NULL.
None == "<None>"

\* A phone that is None or the empty string: `if contact.phone` is false.
NoPhone == << >>

NoPerson == [platform |-> None, platform_id |-> None, email |-> None,
             phone |-> NoPhone]

\* No process resolves persons.
ContactsOff ==
    /\ k_pc = "off"
    /\ k_contacts = << >>
    /\ k_person = NoPerson
    /\ k_ret = 0
    /\ k_count = 0
    /\ k_todo = {}

\* No call of _normalize_phone is made.
PhoneOff ==
    /\ p_pc = "off"
    /\ p_phone = << >>
    /\ p_result = << >>
    /\ p_again = << >>

\* No two importers run side by side.
RaceOff ==
    /\ q_pc = << >>
    /\ q_person = << >>
    /\ q_committed = << >>
    /\ q_pending = << >>
    /\ q_lock = "free"
    /\ q_ret = << >>
    /\ q_error = << >>

\* The tables a calendar import writes, as create_database.py creates them:
\* without the trigger check_event_times.
EmptyCalendarDb ==
    [ contacts |-> << >>, conversations |-> << >>, messages |-> << >>,
      calendar_events |-> << >>, participants |-> << >>,
      check_event_times |-> FALSE ]

NoMessage ==
    [ key |-> None, sender |-> NoPerson, recipients |-> << >>,
      event_start |-> 0, event_end |-> 0 ]

\* No calendar importer runs and no contact is validated.
CalendarOff ==
    /\ e_pc = "off"
    /\ e_db = EmptyCalendarDb
    /\ e_message = NoMessage
    /\ e_result = "-"
    /\ e_count = 0
    /\ e_checked = << >>
    /\ e_errors = << >>

\* A call that has not ended; `of` is the call of func whose exception the
\* wrapper raised.
NoOutcome == [ kind |-> "-", of |-> 0 ]

\* No call goes through retry_with_backoff.
RetryOff ==
    /\ b_pc = "off"
    /\ b_max_attempts = 0
    /\ b_initial_delay = 0
    /\ b_max_delay = 0
    /\ b_backoff_factor = 0
    /\ b_on_retry = FALSE
    /\ b_attempt = 0
    /\ b_delay = 0
    /\ b_outcomes = << >>
    /\ b_sleeps = << >>
    /\ b_result = NoOutcome

\* No block runs under safe_db_connection.
SafeDbOff ==
    /\ s_pc = "off"
    /\ s_exists = FALSE
    /\ s_file = {}
    /\ s_before = {}
    /\ s_pending = {}
    /\ s_written = {}
    /\ s_open = FALSE
    /\ s_block = "-"
    /\ s_raise = "-"
    /\ s_exit = "-"

\* A Message of schema.py: its id, its timestamp (a datetime: the time and
\* whether it carries a tzinfo), its sender and recipients, its body as its
\* characters.
NoLedgerMessage ==
    [ message_id |-> None, timestamp |-> [ at |-> 0, aware |-> FALSE ],
      sender |-> [ name |-> None, email |-> None ], recipients |-> << >>,
      body |-> << >> ]

NoTimeline == [ kind |-> "-", messages |-> << >> ]

\* No UnifiedLedger is in use.
LedgerOff ==
    /\ g_pc = "off"
    /\ g_start_date = 0
    /\ g_messages = << >>
    /\ g_registry = {}
    /\ g_arg = NoLedgerMessage
    /\ g_source = "-"
    /\ g_added = "-"
    /\ g_timeline = NoTimeline
    /\ g_checked = << >>
    /\ g_errors = << >>

\* A database in which no importer has created a row.
NoTable == [ contacts |-> {}, messages |-> {} ]

\* No importer inserts messages.
InsertOff ==
    /\ i_pc = "off"
    /\ i_importer = "-"
    /\ i_items = << >>
    /\ i_next = 0
    /\ i_table = NoTable
    /\ i_log = << >>

OthersOff == ContactsOff /\ PhoneOff /\ RaceOff /\ CalendarOff /\ RetryOff /\ SafeDbOff /\ LedgerOff /\ InsertOff

\* The components that a process of one component does not construct.
RestOff == LLMOff /\ HandlerOff /\ DbOff /\ OthersOff

Init == InitWith(FALSE) /\ RobustIdle /\ RestOff

Config == << chunk_size, save_interval, isolated_errors, resume, store_faulty >>

\* What no step of ChunkedProcessor changes: its configuration and the
\* state of the other components.
Frame == << Config, rvars, lvars, hvars, dvars, ovars >>

\* process_chunked, lines 177-200: the prologue of a call.
Start ==
    /\ pc = "idle"
    /\ processed_set' = IF resume THEN SeqToSet(progress.processed_ids) ELSE {}
    /\ pc' = "loop"
    /\ UNCHANGED << Frame, progress, current_chunk, item_count, idx, ckpt_open,
                    outcome, checkpoint_file, result_file, ckpt_errors, run,
                    kills_only >>

\* Lines 203-208: the next item was already processed.
SkipItem ==
    /\ pc = "loop"
    /\ idx <= MaxItems
    /\ already_processed(resume, get_item_id(idx), processed_set)
    /\ progress' = item_skipped(progress)
    /\ idx' = idx + 1
    /\ UNCHANGED << Frame, current_chunk, item_count, processed_set, pc,
                    ckpt_open, outcome, checkpoint_file, result_file,
                    ckpt_errors, run, kills_only >>

\* Lines 210-228 and 252-260: process_func returns a result.
ItemOk ==
    /\ pc = "loop"
    /\ idx <= MaxItems
    /\ ~already_processed(resume, get_item_id(idx), processed_set)
    /\ LET id == get_item_id(idx)
           chunk == Append(current_chunk, id)
           flush == flush_due(chunk, save_interval)
       IN  /\ outcome' = [ outcome EXCEPT ![idx] = "ok" ]
           /\ result_file' = IF flush
                             THEN save_interval_flush(result_file, chunk, save_interval)
                             ELSE result_file
           /\ current_chunk' = IF flush THEN << >> ELSE chunk
           /\ item_count' = item_count + 1
           /\ progress' = chunk_boundary(item_succeeded(progress, id),
                                         item_count', chunk_size)
           /\ pc' = IF chunk_complete(item_count', chunk_size)
                    THEN "chunk_ckpt" ELSE "loop"
    /\ idx' = idx + 1
    /\ UNCHANGED << Frame, processed_set, ckpt_open, checkpoint_file,
                    ckpt_errors, run, kills_only >>

\* Lines 210-213, 224-228 and 252-260: process_func returns None.
ItemNone ==
    /\ pc = "loop"
    /\ idx <= MaxItems
    /\ ~already_processed(resume, get_item_id(idx), processed_set)
    /\ outcome' = [ outcome EXCEPT ![idx] = "none" ]
    /\ item_count' = item_count + 1
    /\ progress' = chunk_boundary(item_none(progress), item_count', chunk_size)
    /\ pc' = IF chunk_complete(item_count', chunk_size) THEN "chunk_ckpt" ELSE "loop"
    /\ idx' = idx + 1
    /\ UNCHANGED << Frame, current_chunk, processed_set, ckpt_open,
                    checkpoint_file, result_file, ckpt_errors, run,
                    kills_only >>

\* Lines 236-250: process_func raises an ordinary exception.
ItemRaise ==
    /\ pc = "loop"
    /\ idx <= MaxItems
    /\ ~already_processed(resume, get_item_id(idx), processed_set)
    /\ outcome' = [ outcome EXCEPT ![idx] = "raise" ]
    /\ progress' = item_failed(progress, get_item_id(idx))
    /\ pc' = after_failure(isolated_errors)
    /\ idx' = idx + 1
    /\ UNCHANGED << Frame, current_chunk, item_count, processed_set, ckpt_open,
                    checkpoint_file, result_file, ckpt_errors, run,
                    kills_only >>

\* Lines 230-232: KeyboardInterrupt arrives inside process_func.
ItemInterrupt ==
    /\ pc = "loop"
    /\ idx <= MaxItems
    /\ ~already_processed(resume, get_item_id(idx), processed_set)
    /\ outcome' = [ outcome EXCEPT ![idx] = "interrupt" ]
    /\ pc' = "int_ckpt"
    /\ UNCHANGED << Frame, progress, current_chunk, item_count, idx,
                    processed_set, ckpt_open, checkpoint_file, result_file,
                    ckpt_errors, run, kills_only >>

\* Line 203 exhausted: the for loop ends.
LoopEnd ==
    /\ pc = "loop"
    /\ idx > MaxItems
    /\ pc' = "final_results"
    /\ UNCHANGED << Frame, progress, current_chunk, item_count, idx,
                    processed_set, ckpt_open, outcome, checkpoint_file,
                    result_file, ckpt_errors, run, kills_only >>

\* save_checkpoint -> safe_file_write -> safe_file_open: open(path, 'w')
\* truncates progress.json.  On a faulty store the open may raise instead;
\* safe_file_write logs and returns False, save_checkpoint returns normally.
SaveCheckpointOpen ==
    /\ pc \in CkptPcs
    /\ ~ckpt_open
    /\ \/ /\ checkpoint_file' = PartialFile
          /\ ckpt_open' = TRUE
          /\ UNCHANGED << pc, ckpt_errors >>
       \/ /\ store_faulty
          /\ ckpt_errors' = ckpt_errors + 1
          /\ pc' = after_checkpoint(pc)
          /\ UNCHANGED << checkpoint_file, ckpt_open >>
    /\ UNCHANGED << Frame, progress, current_chunk, item_count, idx,
                    processed_set, outcome, result_file, run, kills_only >>

\* safe_file_write: f.write(content) and the close of the file.  On a faulty
\* store the write may raise; the truncated file is what stays on disk.
SaveCheckpointWrite ==
    /\ pc \in CkptPcs
    /\ ckpt_open
    /\ \/ /\ checkpoint_file' = CompleteFile(progress)
          /\ UNCHANGED ckpt_errors
       \/ /\ store_faulty
          /\ ckpt_errors' = ckpt_errors + 1
          /\ UNCHANGED checkpoint_file
    /\ ckpt_open' = FALSE
    /\ pc' = after_checkpoint(pc)
    /\ UNCHANGED << Frame, progress, current_chunk, item_count, idx,
                    processed_set, outcome, result_file, run, kills_only >>

\* Lines 263-267: results of the chunk, after its checkpoint.
ChunkResults ==
    /\ pc = "chunk_results"
    /\ result_file' = save_results(result_file, current_chunk)
    /\ current_chunk' = << >>
    /\ item_count' = 0
    /\ pc' = after_results(pc)
    /\ UNCHANGED << Frame, progress, idx, processed_set, ckpt_open, outcome,
                    checkpoint_file, ckpt_errors, run, kills_only >>

\* Lines 270-271 and 288-289: save_results(current_chunk) of the final
\* chunk and of the outer exception handler.
FlushResults ==
    /\ pc \in { "final_results", "outer_results" }
    /\ result_file' = save_results(result_file, current_chunk)
    /\ pc' = after_results(pc)
    /\ UNCHANGED << Frame, progress, current_chunk, item_count, idx,
                    processed_set, ckpt_open, outcome, checkpoint_file,
                    ckpt_errors, run, kills_only >>

\* Lines 233-234: save_results(current_chunk) of the KeyboardInterrupt
\* handler, then raise: the interrupt leaves process_chunked and its locals
\* are gone.
InterruptFlush ==
    /\ pc = "int_results"
    /\ result_file' = save_results(result_file, current_chunk)
    /\ pc' = after_results(pc)
    /\ current_chunk' = << >>
    /\ item_count' = 0
    /\ idx' = 1
    /\ processed_set' = {}
    /\ outcome' = [ i \in Items |-> "-" ]
    /\ UNCHANGED << Frame, progress, ckpt_open, checkpoint_file, ckpt_errors,
                    run, kills_only >>

\* KeyboardInterrupt arrives outside the inner try (lines 203-208, 252-274).
\* It is not an Exception, so neither handler of process_chunked runs; a
\* file that safe_file_open holds open is closed as it is.  The interrupt
\* leaves process_chunked and its locals are gone.
InterruptOutside ==
    /\ pc \in { "loop", "chunk_ckpt", "chunk_results", "final_results",
                "final_ckpt" }
    /\ pc' = "interrupted"
    /\ ckpt_open' = FALSE
    /\ current_chunk' = << >>
    /\ item_count' = 0
    /\ idx' = 1
    /\ processed_set' = {}
    /\ outcome' = [ i \in Items |-> "-" ]
    /\ UNCHANGED << Frame, progress, checkpoint_file, result_file, ckpt_errors,
                    run, kills_only >>

\* The process is killed: its memory is gone, the files stay as they are.
Kill ==
    /\ pc \in RunningPcs
    /\ pc' = "killed"
    /\ progress' = ChunkProgress
    /\ current_chunk' = << >>
    /\ item_count' = 0
    /\ idx' = 1
    /\ processed_set' = {}
    /\ ckpt_open' = FALSE
    /\ outcome' = [ i \in Items |-> "-" ]
    /\ ckpt_errors' = 0
    /\ UNCHANGED << Frame, checkpoint_file, result_file, run, kills_only >>

\* A new process constructs a ChunkedProcessor on the same directory:
\* __init__, lines 98-104, with load_checkpoint.  Sequences of processes
\* are followed for callers that pass resume=True.
Restart ==
    /\ pc \in EndPcs
    /\ resume
    /\ run < MaxRuns
    /\ run' = run + 1
    /\ kills_only' = (kills_only /\ pc = "killed")
    /\ progress' = load_checkpoint(checkpoint_file)
    /\ current_chunk' = << >>
    /\ item_count' = 0
    /\ idx' = 1
    /\ processed_set' = {}
    /\ outcome' = [ i \in Items |-> "-" ]
    /\ ckpt_errors' = 0
    /\ pc' = "idle"
    /\ UNCHANGED << Frame, ckpt_open, checkpoint_file, result_file >>

Next ==
    \/ Start
    \/ SkipItem
    \/ ItemOk
    \/ ItemNone
    \/ ItemRaise
    \/ ItemInterrupt
    \/ LoopEnd
    \/ SaveCheckpointOpen
    \/ SaveCheckpointWrite
    \/ ChunkResults
    \/ FlushResults
    \/ InterruptFlush
    \/ InterruptOutside
    \/ Kill
    \/ Restart

Spec == Init /\ [][Next]_vars

\* The same program on a checkpoint store that may refuse writes.
InitFaulty == InitWith(TRUE) /\ RobustIdle /\ RestOff
SpecFaulty == InitFaulty /\ [][Next]_vars

\* One process on its own.  It is constructed on an empty directory, or on
\* the files an earlier call left after it ran to completion (with the
\* default chunk_size=100, save_interval=10) over an input that held some
\* of the items: the items of ok returned a result, those of bad raised.
RECURSIVE Ascending(_)
Ascending(S) ==
    IF S = {} THEN << >>
    ELSE LET m == CHOOSE x \in S : \A y \in S : x <= y
         IN  << m >> \o Ascending(S \ { m })

EarlierProgress(ok, bad) ==
    [ processed_items |-> Cardinality(ok) + Cardinality(bad),
      successful_items |-> Cardinality(ok),
      failed_items |-> Cardinality(bad),
      skipped_items |-> 0, current_chunk |-> 0,
      processed_ids |-> Ascending(ok), failed_ids |-> Ascending(bad) ]

RunReady ==
    /\ chunk_size \in 1..MaxChunk
    /\ save_interval \in 1..MaxInterval
    /\ isolated_errors \in BOOLEAN
    /\ resume \in BOOLEAN
    /\ store_faulty = FALSE
    /\ \E ok \in SUBSET Items : \E bad \in SUBSET (Items \ ok) :
        /\ checkpoint_file = IF ok \cup bad = {} THEN NoFile
                             ELSE CompleteFile(EarlierProgress(ok, bad))
        /\ result_file = save_results(<< >>, Ascending(ok))
        /\ run = IF ok \cup bad = {} THEN 1 ELSE 2
    /\ progress = load_checkpoint(checkpoint_file)
    /\ current_chunk = << >>
    /\ item_count = 0
    /\ idx = 1
    /\ processed_set = {}
    /\ pc = "idle"
    /\ ckpt_open = FALSE
    /\ outcome = [ i \in Items |-> "-" ]
    /\ ckpt_errors = 0
    /\ kills_only = FALSE

InitRun == RunReady /\ RobustIdle /\ RestOff

NextRun ==
    \/ Start
    \/ SkipItem
    \/ ItemOk
    \/ ItemNone
    \/ ItemRaise
    \/ ItemInterrupt
    \/ LoopEnd
    \/ SaveCheckpointOpen
    \/ SaveCheckpointWrite
    \/ ChunkResults
    \/ FlushResults
    \/ InterruptFlush
    \/ InterruptOutside
    \/ Kill

SpecRun == InitRun /\ [][NextRun]_vars

\* ------------------------------------------------------- RobustImporter
MaxBatch == 2        \* batch_size ranges over 1..MaxBatch

\* The input list of import_with_checkpoints: items 1..MaxItems, item k
\* with id k (_get_item_id).
RECURSIVE ItemsFrom(_)
ItemsFrom(k) == IF k > MaxItems THEN << >> ELSE << k >> \o ItemsFrom(k + 1)

\* CheckpointManager.is_completed
is_completed(completed, id) == id \in SeqToSet(completed)

\* CheckpointManager.mark_completed
mark_completed(completed, id) ==
    IF is_completed(completed, id) THEN completed ELSE Append(completed, id)

\* Lines 230-231: the items that are not completed, in input order.
remaining_items(completed) ==
    SelectSeq(ItemsFrom(1), LAMBDA k : ~is_completed(completed, k))

\* Line 247: does the batch end with the entry at position pos (batch_idx + 1)?
batch_full(pos, size) == pos % size = 0

\* sqlite3 Connection.commit: the open transaction becomes durable.
db_commit(committed, pending) == committed \cup pending

\* The state after RobustImporter is constructed on a database and a
\* checkpoint directory that hold nothing yet.
RobustReady ==
    /\ r_batch_size \in 1..MaxBatch
    /\ r_pc = "ready"
    /\ r_remaining = << >>
    /\ r_pos = 1
    /\ r_completed = << >>
    /\ r_file = << >>
    /\ r_pending = {}
    /\ r_committed = {}
    /\ r_run = 1

\* What no step of RobustImporter changes: the other components.
RFrame == << cvars, lvars, hvars, dvars, ovars >>

\* import_with_checkpoints, lines 226-233.
RBegin ==
    /\ r_pc = "ready"
    /\ r_remaining' = remaining_items(r_completed)
    /\ r_pos' = 1
    /\ r_pc' = "loop"
    /\ UNCHANGED << RFrame, r_batch_size, r_completed, r_file, r_pending,
                    r_committed, r_run >>

\* Lines 238-249: _import_item returns True.
RImportOk ==
    /\ r_pc = "loop"
    /\ r_pos <= Len(r_remaining)
    /\ r_pending' = r_pending \cup { r_remaining[r_pos] }
    /\ r_completed' = mark_completed(r_completed, r_remaining[r_pos])
    /\ r_pc' = IF batch_full(r_pos, r_batch_size) THEN "commit" ELSE "loop"
    /\ r_pos' = r_pos + 1
    /\ UNCHANGED << RFrame, r_batch_size, r_remaining, r_file, r_committed,
                    r_run >>

\* Lines 238-249: _import_item returns False.
RImportSkip ==
    /\ r_pc = "loop"
    /\ r_pos <= Len(r_remaining)
    /\ r_pc' = IF batch_full(r_pos, r_batch_size) THEN "commit" ELSE "loop"
    /\ r_pos' = r_pos + 1
    /\ UNCHANGED << RFrame, r_batch_size, r_remaining, r_completed, r_file,
                    r_pending, r_committed, r_run >>

\* Lines 255-258: _import_item raises; the batch test is skipped.
RImportRaise ==
    /\ r_pc = "loop"
    /\ r_pos <= Len(r_remaining)
    /\ r_pos' = r_pos + 1
    /\ UNCHANGED << RFrame, r_batch_size, r_pc, r_remaining, r_completed,
                    r_file, r_pending, r_committed, r_run >>

\* Lines 251-253: KeyboardInterrupt inside the try.
RImportInterrupt ==
    /\ r_pc = "loop"
    /\ r_pos <= Len(r_remaining)
    /\ r_pc' = "int_commit"
    /\ UNCHANGED << RFrame, r_batch_size, r_remaining, r_pos, r_completed,
                    r_file, r_pending, r_committed, r_run >>

\* _commit_checkpoint, line 273: conn.commit().  If it raises, the handler
\* of line 276 logs and the checkpoint is not saved.
RCommit ==
    /\ r_pc \in { "commit", "int_commit" }
    /\ \/ /\ r_committed' = db_commit(r_committed, r_pending)
          /\ r_pending' = {}
          /\ r_pc' = IF r_pc = "commit" THEN "save" ELSE "int_save"
       \/ /\ r_pc' = IF r_pc = "commit" THEN "loop" ELSE "interrupted"
          /\ UNCHANGED << r_pending, r_committed >>
    /\ UNCHANGED << RFrame, r_batch_size, r_remaining, r_pos, r_completed,
                    r_file, r_run >>

\* _commit_checkpoint, line 274: checkpoint.save_checkpoint().
RSave ==
    /\ r_pc \in { "save", "int_save" }
    /\ r_file' = r_completed
    /\ r_pc' = IF r_pc = "save" THEN "loop" ELSE "interrupted"
    /\ UNCHANGED << RFrame, r_batch_size, r_remaining, r_pos, r_completed,
                    r_pending, r_committed, r_run >>

\* Line 235 exhausted: import_with_checkpoints returns.
RLoopEnd ==
    /\ r_pc = "loop"
    /\ r_pos > Len(r_remaining)
    /\ r_pc' = "returned"
    /\ UNCHANGED << RFrame, r_batch_size, r_remaining, r_pos, r_completed,
                    r_file, r_pending, r_committed, r_run >>

\* close(), line 206: conn.close() discards the open transaction.
RClose ==
    /\ r_pc = "returned"
    /\ r_pending' = {}
    /\ r_pc' = "finalize"
    /\ UNCHANGED << RFrame, r_batch_size, r_remaining, r_pos, r_completed,
                    r_file, r_committed, r_run >>

\* close(), line 207: _finalize_stats saves the checkpoint (line 222).
RFinalize ==
    /\ r_pc = "finalize"
    /\ r_file' = r_completed
    /\ r_pc' = "closed"
    /\ UNCHANGED << RFrame, r_batch_size, r_remaining, r_pos, r_completed,
                    r_pending, r_committed, r_run >>

\* A new process constructs a RobustImporter on the same files:
\* CheckpointManager._load_checkpoint; the old connection is gone.
RRestart ==
    /\ r_pc \in { "closed", "interrupted" }
    /\ r_run < MaxRuns
    /\ r_run' = r_run + 1
    /\ r_completed' = r_file
    /\ r_pending' = {}
    /\ r_remaining' = << >>
    /\ r_pos' = 1
    /\ r_pc' = "ready"
    /\ UNCHANGED << RFrame, r_batch_size, r_file, r_committed >>

\* The chunked processor as constructed, not started, while the importer runs.
ChunkedIdle ==
    /\ chunk_size = 1
    /\ save_interval = 1
    /\ isolated_errors = TRUE
    /\ progress = ChunkProgress
    /\ current_chunk = << >>
    /\ item_count = 0
    /\ idx = 1
    /\ resume = TRUE
    /\ processed_set = {}
    /\ pc = "off"
    /\ ckpt_open = FALSE
    /\ outcome = [ i \in Items |-> "-" ]
    /\ checkpoint_file = NoFile
    /\ result_file = << >>
    /\ store_faulty = FALSE
    /\ ckpt_errors = 0
    /\ run = 1
    /\ kills_only = TRUE

InitRobust == ChunkedIdle /\ RobustReady /\ RestOff

NextRobust ==
    \/ RBegin
    \/ RImportOk
    \/ RImportSkip
    \/ RImportRaise
    \/ RImportInterrupt
    \/ RCommit
    \/ RSave
    \/ RLoopEnd
    \/ RClose
    \/ RFinalize
    \/ RRestart

SpecRobust == InitRobust /\ [][NextRobust]_vars

\* ------------------------------------------------- IsolatedLLMProcessor
MaxRetries == 1      \* max_retries ranges over 0..MaxRetries

\* What no step of IsolatedLLMProcessor changes.
LFrame == << cvars, rvars, hvars, dvars, ovars, l_max_retries, l_has_fallback,
            l_continue >>

\* Lines 371-377: after the attempts, the fallback if there is one.
after_attempts(has_fallback) == IF has_fallback THEN "fallback" ELSE "final"

\* A loop that gives up after the first empty result.
next_attempt_once(attempt, max_retries, has_fallback) ==
    after_attempts(has_fallback)

\* Line 350: the for loop moves to the next attempt or ends.
next_attempt(attempt, max_retries, has_fallback) ==
    IF attempt < max_retries THEN "attempt" ELSE after_attempts(has_fallback)

\* One handler for everything llm_func raises.
on_llm_exception_any(exc, attempt, max_retries, has_fallback) ==
    IF attempt < max_retries THEN "sleep" ELSE after_attempts(has_fallback)

\* Lines 356-370: the except clauses around llm_func(item).
on_llm_exception(exc, attempt, max_retries, has_fallback) ==
    IF exc = "interrupt" THEN "interrupted"
    ELSE IF attempt < max_retries THEN "sleep"
    ELSE after_attempts(has_fallback)

\* How __call__ has ended at position at.
call_result(at, result) ==
    CASE at = "interrupted" -> "KeyboardInterrupt"
      [] at = "raised" -> "error"
      [] OTHER -> result

\* The state after IsolatedLLMProcessor.__init__, lines 317-340.
LLMReady ==
    /\ l_max_retries \in 0..MaxRetries
    /\ l_has_fallback \in BOOLEAN
    /\ l_continue \in BOOLEAN
    /\ l_pc = "ready"
    /\ l_attempt = 0
    /\ l_last_error = FALSE
    /\ l_calls = 0
    /\ l_fb_calls = 0
    /\ l_result = "-"
    /\ l_func = "-"

\* __call__, lines 348-350: the first attempt begins.
LCall ==
    /\ l_pc = "ready"
    /\ l_pc' = "attempt"
    /\ l_attempt' = 0
    /\ l_last_error' = FALSE
    /\ UNCHANGED << LFrame, l_calls, l_fb_calls, l_result, l_func >>

\* Lines 353-355: llm_func returns a result that is truthy.
LAttemptOk ==
    /\ l_pc = "attempt"
    /\ l_func' = "value"
    /\ l_calls' = l_calls + 1
    /\ l_pc' = "returned"
    /\ l_result' = "llm"
    /\ UNCHANGED << LFrame, l_attempt, l_last_error, l_fb_calls >>

\* Lines 353-354: llm_func returns an empty result; the loop goes on.
LAttemptEmpty ==
    /\ l_pc = "attempt"
    /\ l_func' = "empty"
    /\ l_calls' = l_calls + 1
    /\ l_pc' = next_attempt(l_attempt, l_max_retries, l_has_fallback)
    /\ l_attempt' = l_attempt + 1
    /\ UNCHANGED << LFrame, l_last_error, l_fb_calls, l_result >>

\* Lines 356-370: llm_func raises an ordinary exception or KeyboardInterrupt.
LAttemptRaise ==
    /\ l_pc = "attempt"
    /\ \E exc \in { "error", "interrupt" } :
        /\ l_func' = exc
        /\ l_pc' = on_llm_exception(exc, l_attempt, l_max_retries, l_has_fallback)
        /\ l_last_error' = IF l_pc' = "interrupted" THEN l_last_error ELSE TRUE
        /\ l_attempt' = IF l_pc' \in { "interrupted", "sleep" }
                        THEN l_attempt ELSE l_attempt + 1
        /\ l_result' = call_result(l_pc', l_result)
    /\ l_calls' = l_calls + 1
    /\ UNCHANGED << LFrame, l_fb_calls >>

\* Lines 365-366: time.sleep(1); continue.
LSleep ==
    /\ l_pc = "sleep"
    /\ l_attempt' = l_attempt + 1
    /\ l_pc' = "attempt"
    /\ UNCHANGED << LFrame, l_last_error, l_calls, l_fb_calls, l_result, l_func >>

\* Lines 373-377: fallback_func returns, raises an ordinary exception
\* (caught and logged) or raises KeyboardInterrupt (not an Exception).
LFallback ==
    /\ l_pc = "fallback"
    /\ l_fb_calls' = l_fb_calls + 1
    /\ \E did \in { "value", "error", "interrupt" } :
        /\ l_func' = did
        /\ l_pc' = CASE did = "value" -> "returned"
                     [] did = "error" -> "final"
                     [] did = "interrupt" -> "interrupted"
        /\ l_result' = IF did = "value" THEN "fallback"
                       ELSE call_result(l_pc', l_result)
    /\ UNCHANGED << LFrame, l_attempt, l_last_error, l_calls >>

\* Lines 380-386: return None, or raise last_error or a new Exception.
LFinal ==
    /\ l_pc = "final"
    /\ l_pc' = IF l_continue THEN "returned" ELSE "raised"
    /\ l_result' = IF l_continue THEN "None" ELSE call_result(l_pc', l_result)
    /\ UNCHANGED << LFrame, l_attempt, l_last_error, l_calls, l_fb_calls, l_func >>

\* ---------------------------------------------- handle_extraction_error
\* What the wrapped function can do when called.
FuncOutcomes == { "value", "none", "error", "custom", "interrupt" }

\* A wrapper whose handler of Exception also receives the interrupt.
handle_extraction_error_any(did, continue_on_error) ==
    CASE did = "value" -> "value"
      [] did = "none" -> "None"
      [] did = "custom" -> "MessageExtractorError"
      [] OTHER -> IF continue_on_error THEN "None" ELSE "ExtractionError"

\* handle_extraction_error.wrapper, lines 539-561: what the caller gets.
handle_extraction_error(did, continue_on_error) ==
    CASE did = "value" -> "value"
      [] did = "none" -> "None"
      [] did = "interrupt" -> "KeyboardInterrupt"
      [] did = "custom" -> "MessageExtractorError"
      [] did = "error" -> IF continue_on_error THEN "None" ELSE "ExtractionError"

\* The state after a function is wrapped.
HandlerReady ==
    /\ h_continue \in BOOLEAN
    /\ h_func = "ready"
    /\ h_result = "-"

\* One call of the wrapped function through the wrapper.
HCall ==
    /\ h_func = "ready"
    /\ \E did \in FuncOutcomes :
        /\ h_func' = did
        /\ h_result' = handle_extraction_error(did, h_continue)
    /\ UNCHANGED << cvars, rvars, lvars, dvars, ovars, h_continue >>

\* A process that runs one of the three: process_chunked, a call of an
\* IsolatedLLMProcessor, a call of a function wrapped by
\* handle_extraction_error.
InitGuards ==
    \/ RunReady /\ RobustIdle /\ LLMOff /\ HandlerOff /\ DbOff /\ OthersOff
    \/ ChunkedIdle /\ RobustIdle /\ LLMReady /\ HandlerOff /\ DbOff /\ OthersOff
    \/ ChunkedIdle /\ RobustIdle /\ LLMOff /\ HandlerReady /\ DbOff /\ OthersOff

NextGuards ==
    \/ NextRun
    \/ LCall
    \/ LAttemptOk
    \/ LAttemptEmpty
    \/ LAttemptRaise
    \/ LSleep
    \/ LFallback
    \/ LFinal
    \/ HCall

SpecGuards == InitGuards /\ [][NextGuards]_vars

\* ------------------------------ chat database and the WhatsApp importers
\* scripts/create_database.py creates the tables and their triggers;
\* import_whatsapp_to_database.py ("root") and scripts/import_whatsapp.py
\* ("script") fill them from a WhatsApp export.  A row's id is its position
\* in its table.  Times are ordinals; NoTime is NULL.
MaxTime == 2         \* timestamp of an exported message ranges over 1..MaxTime
MaxMsgs == 2         \* an exported chat holds at most MaxMsgs messages
MaxImports == 2      \* importer processes run one after the other on a database
GroupCeiling == 7    \* the importer skips a chat of more participants
Epoch == 2           \* '1970-01-01' of update_contact_stats: time 1 is before 1970
NoTime == 0          \* NULL in a TIMESTAMP column
EndOfTime == MaxTime + 1    \* '9999-12-31' of update_contact_stats

Importers == { "root", "script" }

\* Chat ids, one of each form the importers tell apart.
UserChat == "15550001@s.whatsapp.net"
GroupChat == "12345-678@g.us"
LidChat == "98765@lid"
PlainChat == "Notes"
ChatIds == { UserChat, GroupChat, LidChat, PlainChat }

\* '@' in chat_id; chat_id.split('@')[0] of the one-to-one chat.
has_at(chat_id) == chat_id # PlainChat
phone_of(chat_id) == "15550001"

\* msg.sender of a message of somebody else ("" when the export has none)
\* and chat_store.name ("" when the chat has no name).
Names == << "alice", "bob", "carol", "dave", "erin", "frank", "grace", "heidi" >>
People == { Names[1], Names[2] }
ChatNames == { "", "Family" }

\* key_id of an exported message.
Keys == { "k1", "k2" }

\* `a in b` of two strings: of the strings above and "me" none is a proper
\* part of another.
contains(a, b) == a = b

SourceMessages ==
    [ key_id : Keys, timestamp : 1..MaxTime,
      from_me : { TRUE }, sender : { "" } ]
    \cup
    [ key_id : Keys, timestamp : 1..MaxTime,
      from_me : { FALSE }, sender : People \cup { "" } ]

MessageLists == UNION { [ 1..n -> SourceMessages ] : n \in 0..MaxMsgs }

\* chat_data with one chat: its id, its name, its messages.
Exports == [ chat_id : ChatIds, name : ChatNames, messages : MessageLists ]

MinOf(S) == CHOOSE x \in S : \A y \in S : x <= y
Smaller(a, b) == IF a <= b THEN a ELSE b
Larger(a, b) == IF a >= b THEN a ELSE b

\* COALESCE(value, default).
coalesce(value, default) == IF value = NoTime THEN default ELSE value

\* The value of an expression, computed once.
Once(values) == CHOOSE v \in values : TRUE

\* A message put into a sorted list behind the messages that are not later.
insert_sorted(sorted, m) ==
    LET k == Cardinality({ i \in 1..Len(sorted) :
                             sorted[i].timestamp <= m.timestamp })
    IN SubSeq(sorted, 1, k) \o << m >> \o SubSeq(sorted, k + 1, Len(sorted))

\* messages_list.sort(key=timestamp): a stable sort.
RECURSIVE sort_by_timestamp(_)
sort_by_timestamp(messages) ==
    IF Len(messages) = 0 THEN << >>
    ELSE Once({ insert_sorted(sorted, messages[Len(messages)]) :
                  sorted \in { sort_by_timestamp(
                                  SubSeq(messages, 1, Len(messages) - 1)) } })

\* _count_participants and import_participants: what a message of somebody
\* else adds to the set participants ("" = nothing).
participant_of(msg, chat) ==
    IF msg.sender # "" THEN msg.sender
    ELSE IF chat.name # "" THEN chat.name
    ELSE IF chat.chat_id = UserChat THEN phone_of(chat.chat_id)
    ELSE IF chat.chat_id = GroupChat THEN chat.chat_id
    ELSE ""

other_participants(chat, messages) ==
    { participant_of(messages[i], chat) :
        i \in { j \in 1..Len(messages) : ~messages[j].from_me } } \ { "" }

has_me(messages) == \E i \in 1..Len(messages) : messages[i].from_me

\* _count_participants.
count_participants(chat, messages) ==
    Cardinality(other_participants(chat, messages))
        + (IF has_me(messages) THEN 1 ELSE 0)

\* list(participants): the orders in which a set may yield its elements.
RECURSIVE Orders(_)
Orders(S) ==
    IF S = {} THEN { << >> }
    ELSE UNION { { << x >> \o rest : rest \in Orders(S \ { x }) } : x \in S }

RECURSIVE OneOrder(_)
OneOrder(S) ==
    IF S = {} THEN << >>
    ELSE LET x == CHOOSE y \in S : TRUE IN << x >> \o OneOrder(S \ { x })

\* The orders import_participants may take the participants of a chat in.
\* In a chat whose id has an '@' every participant but "me" resolves to the
\* one contact of the chat, whatever the order: one order stands for all.
participant_orders(chat) ==
    IF has_at(chat.chat_id)
    THEN { OneOrder(other_participants(chat, chat.messages)) }
    ELSE Orders(other_participants(chat, chat.messages))

\* all_participants of import_participants, for one order of the set.
all_participants(messages, order) ==
    IF has_me(messages) THEN << "me" >> \o order ELSE order

\* _get_or_create_whatsapp_contact: the platform_id of a participant.
whatsapp_platform_id(participant, chat_id) ==
    IF participant = "me" THEN "me"
    ELSE IF has_at(chat_id) THEN chat_id
    ELSE participant

\* SELECT contact_id FROM contacts WHERE platform_id = ? (0 = no row).
find_contact(d, platform_id) ==
    LET hits == { i \in DOMAIN d.contacts :
                    d.contacts[i].platform_id = platform_id }
    IN IF hits = {} THEN 0 ELSE MinOf(hits)

\* INSERT INTO contacts: the aggregate columns take their defaults.
new_contact(platform_id) ==
    [ platform_id |-> platform_id, message_count |-> 0,
      first_seen |-> NoTime, last_seen |-> NoTime ]

\* _get_or_create_whatsapp_contact: the tables after the call.
get_or_create_whatsapp_contact(d, platform_id) ==
    IF find_contact(d, platform_id) # 0 THEN d
    ELSE [ d EXCEPT !.contacts = Append(@, new_contact(platform_id)) ]

participant_rows(d, conv) ==
    { i \in DOMAIN d.participants : d.participants[i].conversation_id = conv }

\* Trigger detect_group_conversation.
detect_group_conversation(d, conv) ==
    LET n == Cardinality(participant_rows(d, conv))
    IN [ d EXCEPT !.conversations[conv].is_group = (n > 2),
                  !.conversations[conv].participant_count = n ]

\* INSERT OR IGNORE INTO conversation_participants, UNIQUE(conversation_id,
\* contact_id); the trigger fires for a row that is inserted.
insert_or_ignore_participant(d, conv, contact) ==
    IF \E i \in participant_rows(d, conv) : d.participants[i].contact_id = contact
    THEN d
    ELSE detect_group_conversation(
             [ d EXCEPT !.participants =
                   Append(@, [ conversation_id |-> conv, contact_id |-> contact ]) ],
             conv)

\* import_participants: the loop body for one participant.
link_participant(d, conv, chat_id, participant) ==
    Once({ insert_or_ignore_participant(
               d1, conv, find_contact(d1, whatsapp_platform_id(participant, chat_id))) :
             d1 \in { get_or_create_whatsapp_contact(
                        d, whatsapp_platform_id(participant, chat_id)) } })

\* import_participants: the loop over all_participants.
RECURSIVE import_participants(_, _, _, _)
import_participants(d, conv, chat_id, parts) ==
    IF parts = << >> THEN d
    ELSE Once({ import_participants(d1, conv, chat_id, Tail(parts)) :
                  d1 \in { link_participant(d, conv, chat_id, Head(parts)) } })

\* import_messages: the contacts linked to the conversation.
linked_contacts(d, conv) ==
    { d.participants[i].contact_id : i \in participant_rows(d, conv) }

\* import_messages: the sender_id of a message (0 = None).
sender_id_of(d, conv, chat_id, msg) ==
    LET linked == linked_contacts(d, conv)
        me == { c \in linked : d.contacts[c].platform_id = "me" }
        by_name == { c \in linked :
                       \/ contains(msg.sender, d.contacts[c].platform_id)
                       \/ contains(d.contacts[c].platform_id, msg.sender) }
        others == { c \in linked : d.contacts[c].platform_id # "me" }
    IN IF msg.from_me
       THEN (IF me = {} THEN 0 ELSE MinOf(me))
       ELSE IF msg.sender # "" /\ by_name # {} THEN MinOf(by_name)
       ELSE IF chat_id = UserChat /\ others # {} THEN MinOf(others)
       ELSE 0

\* The row import_messages inserts for a message.
message_row(d, conv, chat_id, msg) ==
    [ platform_message_id |-> msg.key_id, conversation_id |-> conv,
      sender_id |-> sender_id_of(d, conv, chat_id, msg),
      timestamp |-> msg.timestamp ]

\* The constraints of the table: UNIQUE(platform, platform_message_id) of
\* the mutant never fails.
integrity_error_never(d, row) == row.sender_id = 0

\* sqlite3.IntegrityError of an INSERT INTO messages: sender_id NOT NULL,
\* UNIQUE(platform, platform_message_id).
integrity_error(d, row) ==
    \/ row.sender_id = 0
    \/ \E i \in DOMAIN d.messages :
           d.messages[i].platform_message_id = row.platform_message_id

\* Trigger update_conversation_timestamps.
update_conversation_timestamps(d, new) ==
    [ d EXCEPT !.conversations[new.conversation_id] =
        [ @ EXCEPT !.last_message_at = new.timestamp,
                   !.message_count = @ + 1,
                   !.first_message_at = coalesce(@, new.timestamp) ] ]

\* Trigger update_contact_stats.
update_contact_stats(d, new) ==
    [ d EXCEPT !.contacts[new.sender_id] =
        [ @ EXCEPT !.last_seen = Larger(coalesce(@, Epoch), new.timestamp),
                   !.first_seen = Smaller(coalesce(@, EndOfTime), new.timestamp),
                   !.message_count = @ + 1 ] ]

\* INSERT INTO messages of a row that violates no constraint, and the two
\* triggers it fires.
insert_message(d, row) ==
    update_contact_stats(
        update_conversation_timestamps(
            [ d EXCEPT !.messages = Append(@, row) ], row),
        row)

\* import_messages: how the loop body ends for one message.  The script
\* importer reads chat_store.type, a name import_messages does not have:
\* NameError, caught by `except Exception`.
message_outcome(d, row, msg, importer) ==
    IF ~msg.from_me /\ row.sender_id = 0 THEN "no_sender"
    ELSE IF importer = "script" THEN "error"
    ELSE IF integrity_error(d, row) THEN "skipped"
    ELSE "imported"

\* The outcomes in which the INSERT was executed.
Executed == { "skipped", "imported" }

\* import_messages: the loop body for one message; log keeps each
\* message's id and outcome.
import_message(d, log, row, msg, importer) ==
    Once({ [ db |-> IF how = "imported" THEN insert_message(d, row) ELSE d,
             log |-> Append(log, [ key_id |-> msg.key_id, how |-> how ]) ] :
             how \in { message_outcome(d, row, msg, importer) } })

\* import_messages: the loop.
RECURSIVE import_messages(_, _, _, _, _, _)
import_messages(d, log, conv, chat_id, messages, importer) ==
    IF messages = << >> THEN [ db |-> d, log |-> log ]
    ELSE Once({ import_messages(r.db, r.log, conv, chat_id, Tail(messages), importer) :
                  r \in { Once({ import_message(d, log, row, Head(messages), importer) :
                                   row \in { message_row(d, conv, chat_id,
                                                         Head(messages)) } }) } })

\* The conversation lookup of the mutant finds nothing.
find_conversation_never(d, chat_id) == 0

\* SELECT conversation_id FROM conversations WHERE thread_id = ? (0 = no row).
find_conversation(d, chat_id) ==
    LET hits == { i \in DOMAIN d.conversations :
                    d.conversations[i].thread_id = chat_id }
    IN IF hits = {} THEN 0 ELSE MinOf(hits)

\* is_group as import_conversation writes it; messages is not empty.
initial_is_group(importer, chat_id, messages) ==
    IF importer = "script" THEN TRUE ELSE chat_id = GroupChat

\* The row import_conversation inserts; messages is sorted and not empty.
new_conversation(importer, chat_id, messages) ==
    [ thread_id |-> chat_id,
      first_message_at |-> messages[1].timestamp,
      last_message_at |-> messages[Len(messages)].timestamp,
      is_group |-> initial_is_group(importer, chat_id, messages),
      participant_count |-> 2,
      message_count |-> Len(messages) ]

\* import_conversation of the root importer returns before it writes
\* anything when the chat has more than 7 participants; the script importer
\* has no such test.
over_ceiling(importer, count) == importer = "root" /\ count > GroupCeiling

\* import_conversation, lines 96-124: the conversation is looked up or
\* inserted, then the participants and the messages are imported.
import_sorted(d, chat_id, messages, order, importer) ==
    LET found == find_conversation(d, chat_id)
        d1 == IF found # 0 THEN d
              ELSE [ d EXCEPT !.conversations =
                       Append(@, new_conversation(importer, chat_id, messages)) ]
        conv == IF found # 0 THEN found ELSE Len(d1.conversations)
    IN Once({ import_messages(d2, << >>, conv, chat_id, messages, importer) :
                d2 \in { import_participants(d1, conv, chat_id,
                                             all_participants(messages, order)) } })

\* import_conversation, for one order of the participant set.
import_conversation(d, chat, order, importer) ==
    Once({ IF messages = << >> THEN [ db |-> d, log |-> << >> ]
           ELSE IF over_ceiling(importer, count_participants(chat, messages))
           THEN [ db |-> d, log |-> << >> ]
           ELSE import_sorted(d, chat.chat_id, messages, order, importer) :
             messages \in { sort_by_timestamp(chat.messages) } })

\* What no step of an importer changes.
DFrame == << cvars, rvars, lvars, hvars, ovars, d_importer >>

keys_of(log, hows) ==
    { log[i].key_id : i \in { j \in 1..Len(log) : log[j].how \in hows } }

\* Message ids with two executed INSERTs in one log.
twice_in(log) ==
    { log[i].key_id : i \in { j \in 1..Len(log) :
        /\ log[j].how \in Executed
        /\ \E k \in 1..(j - 1) :
              log[k].how \in Executed /\ log[k].key_id = log[j].key_id } }

\* import_all on the export the process was given: the one chat is imported
\* and the transaction committed.
DImportAll ==
    /\ d_pc = "ready"
    /\ \E order \in participant_orders(d_source) :
       \E r \in { import_conversation(db, d_source, order, d_importer) } :
         LET executed == keys_of(r.log, Executed)
         IN /\ db' = r.db
            /\ d_outcomes' = { r.log[i].how : i \in 1..Len(r.log) }
            /\ d_seen' = d_seen \cup executed
            /\ d_again' = d_again \cup (d_seen \cap executed) \cup twice_in(r.log)
            /\ d_first' = IF d_run = 1 THEN r.db ELSE d_first
    /\ d_pc' = "committed"
    /\ UNCHANGED << DFrame, d_source, d_run >>

\* The next importer process is given the same export.
DRerun ==
    /\ d_pc = "committed"
    /\ d_run < MaxImports
    /\ d_pc' = "ready"
    /\ d_run' = d_run + 1
    /\ UNCHANGED << DFrame, db, d_source, d_outcomes, d_seen, d_again, d_first >>

\* An importer process of the root importer is about to import an export
\* into the empty database.
DbReady ==
    /\ d_importer = "root"
    /\ db = EmptyDb
    /\ d_source \in Exports
    /\ d_pc = "ready"
    /\ d_run = 1
    /\ d_outcomes = {}
    /\ d_seen = {}
    /\ d_again = {}
    /\ d_first = EmptyDb

InitRerun == ChunkedIdle /\ RobustIdle /\ LLMOff /\ HandlerOff /\ DbReady
    /\ OthersOff

NextRerun == DImportAll \/ DRerun

\* The same export imported by up to MaxImports processes of the root
\* importer, one after the other.
SpecRerun == InitRerun /\ [][NextRerun]_vars

\* An importer process of the root importer is given an export, new or
\* not, and imports it into the database the earlier processes left.
DIngest ==
    /\ d_pc = "open"
    /\ d_run <= MaxImports
    /\ \E export \in Exports :
       \E order \in participant_orders(export) :
         db' = import_conversation(db, export, order, d_importer).db
    /\ d_run' = d_run + 1
    /\ UNCHANGED << DFrame, d_source, d_pc, d_outcomes, d_seen, d_again, d_first >>

\* The empty database, before the first importer process.
DbOpen ==
    /\ d_importer = "root"
    /\ db = EmptyDb
    /\ d_source = << >>
    /\ d_pc = "open"
    /\ d_run = 1
    /\ d_outcomes = {}
    /\ d_seen = {}
    /\ d_again = {}
    /\ d_first = EmptyDb

InitIngest == ChunkedIdle /\ RobustIdle /\ LLMOff /\ HandlerOff /\ DbOpen
    /\ OthersOff

NextIngest == DIngest

\* Up to MaxImports imports of any exports into one database; every state
\* is the database after a committed import.
SpecIngest == InitIngest /\ [][NextIngest]_vars

\* key_id of the messages of a crowded chat.
CrowdKeys == << "k1", "k2", "k3", "k4", "k5", "k6", "k7", "k8", "k9" >>

\* A chat in which n people wrote one message each, and "me" one or none.
crowd(chat_id, n, me) ==
    [ chat_id |-> chat_id, name |-> "",
      messages |->
        [ i \in 1..(n + (IF me THEN 1 ELSE 0)) |->
            [ key_id |-> CrowdKeys[i], timestamp |-> 1,
              from_me |-> (i > n),
              sender |-> IF i > n THEN "" ELSE Names[i] ] ] ]

\* Exports of one chat with up to GroupCeiling + 1 other people.
CrowdExports ==
    { crowd(chat_id, n, me) :
        chat_id \in { GroupChat, LidChat },
        n \in 0..(GroupCeiling + 1), me \in BOOLEAN }

\* An importer process of either importer is about to import a crowded
\* chat into the empty database.
DbCrowd ==
    /\ d_importer \in Importers
    /\ db = EmptyDb
    /\ d_source \in CrowdExports
    /\ d_pc = "ready"
    /\ d_run = 1
    /\ d_outcomes = {}
    /\ d_seen = {}
    /\ d_again = {}
    /\ d_first = EmptyDb

InitCeiling == ChunkedIdle /\ RobustIdle /\ LLMOff /\ HandlerOff /\ DbCrowd
    /\ OthersOff

NextCeiling == DImportAll \/ DRerun

\* A chat of 0 to GroupCeiling + 2 participants imported by either importer.
SpecCeiling == InitCeiling /\ [][NextCeiling]_vars

\* ================================================================ claims

\* processed_ids and failed_ids of the checkpoint file on disk, as a load
\* would see them.
disk_processed_ids == SeqToSet(load_checkpoint(checkpoint_file).processed_ids)
disk_failed_ids == SeqToSet(load_checkpoint(checkpoint_file).failed_ids)
file_ids == written_ids(result_file)

OutcomeIs(o) == { i \in Items : outcome[i] = o }
Called == { i \in Items : outcome[i] # "-" }
NoDuplicates(s) == Cardinality(SeqToSet(s)) = Len(s)

\* C1: at every reachable state, every result in the results file belongs
\* to an item whose id is in processed_ids of the checkpoint file on disk.
C1_EffectsImplyRecorded == SeqToSet(file_ids) \subseteq disk_processed_ids

\* C2: whenever the checkpoint file is written, every id in the written
\* processed_ids already has its result in the results file.
C2_CheckpointAfterResults ==
    [][ (checkpoint_file' # checkpoint_file /\ checkpoint_file'.kind = "complete")
        => SeqToSet(checkpoint_file'.data.processed_ids) \subseteq SeqToSet(file_ids) ]_vars

\* C3: a run with resume=True that completes after earlier processes were
\* killed leaves the output of one uninterrupted run: the results file holds
\* no result twice and holds the result of every item recorded as processed.
ExactlyOnce ==
    \A id \in Items :
        /\ Count(file_ids, id) <= 1
        /\ id \in disk_processed_ids => Count(file_ids, id) = 1

C3_ResumeIdempotent == (pc = "done" /\ resume /\ kills_only) => ExactlyOnce

\* C4: when a KeyboardInterrupt leaves process_chunked, the checkpoint with
\* every id processed so far and the results of the partial chunk are on disk.
C4_InterruptFlushes ==
    [][ (pc # "interrupted" /\ pc' = "interrupted") =>
            /\ SeqToSet(progress.processed_ids) \subseteq
                   SeqToSet(load_checkpoint(checkpoint_file').processed_ids)
            /\ SeqToSet(current_chunk) \subseteq
                   SeqToSet(written_ids(result_file')) ]_vars

\* C5: an item id is in the saved checkpoint file of RobustImporter only if
\* the item's database writes are committed.
C5_CheckpointedImpliesCommitted == SeqToSet(r_file) \subseteq r_committed

\* C6: with isolated_errors=True and no prior checkpoint a run in which
\* items raise ordinary exceptions never aborts, and it ends with
\* processed_items = N, failed_items = the number of raising items,
\* processed_ids = the ids that succeeded, failed_ids = the ids that raised,
\* and the checkpoint file holding these values.
AbortPcs == { "abort_ckpt", "outer_ckpt", "outer_results", "aborted" }

C6_IsolatedErrorsRun ==
    /\ isolated_errors => pc \notin AbortPcs
    /\ (isolated_errors /\ run = 1 /\ pc = "done") =>
        /\ Called = Items
        /\ progress.processed_items = MaxItems
        /\ progress.failed_items = Cardinality(OutcomeIs("raise"))
        /\ SeqToSet(progress.processed_ids) = OutcomeIs("ok")
        /\ NoDuplicates(progress.processed_ids)
        /\ SeqToSet(progress.failed_ids) = OutcomeIs("raise")
        /\ NoDuplicates(progress.failed_ids)
        /\ checkpoint_file = CompleteFile(progress)

C6_Witness ==
    /\ isolated_errors /\ run = 1 /\ pc = "done" /\ chunk_size = 2
    /\ outcome[1] = "ok" /\ outcome[2] = "raise" /\ outcome[3] = "ok"
    /\ checkpoint_file.data.failed_ids = << 2 >>

\* C7: with isolated_errors=False the first item that raises an ordinary
\* exception aborts the run: no later item reaches process_func, and when
\* process_chunked raises the checkpoint file holds the ids that succeeded
\* before it in processed_ids and the failing id in failed_ids.
Raised == ~isolated_errors /\ OutcomeIs("raise") # {}

C7_FirstErrorAborts ==
    /\ Raised =>
        /\ pc \in AbortPcs
        /\ \A i \in OutcomeIs("raise") : \A j \in Items : j > i => outcome[j] = "-"
    /\ (Raised /\ (pc \in { "outer_results", "aborted" }
                    \/ (pc = "outer_ckpt" /\ ~ckpt_open))) =>
        /\ checkpoint_file.kind = "complete"
        /\ OutcomeIs("ok") \subseteq disk_processed_ids
        /\ OutcomeIs("raise") \subseteq disk_failed_ids
        /\ Cardinality(OutcomeIs("raise")) = 1

C7_Witness ==
    /\ ~isolated_errors /\ pc = "aborted"
    /\ outcome[1] = "ok" /\ outcome[2] = "raise" /\ outcome[3] = "-"
    /\ 1 \in disk_processed_ids /\ 2 \in disk_failed_ids

\* C8: on a run with resume=True, process_func is never called for an item
\* whose id is in processed_ids of the checkpoint loaded at the start, and a
\* run that completes has called it for every other item.
C8_ResumeFilter ==
    /\ [][ (pc = "idle" /\ pc' = "loop" /\ resume)
           => processed_set' = disk_processed_ids ]_vars
    /\ []( (resume /\ pc # "idle") =>
            /\ \A i \in Called : get_item_id(i) \notin processed_set
            /\ pc = "done" =>
                 \A i \in Items : get_item_id(i) \notin processed_set => i \in Called )

C8_Witness ==
    /\ resume /\ run = 2 /\ pc = "done"
    /\ processed_set # {} /\ Called # {}

\* C9: a crash during save_checkpoint leaves the complete previous or the
\* complete new checkpoint on disk, never an empty or partial file.
C9_AtomicRewrite == pc = "killed" => checkpoint_file.kind # "partial"

\* C10: after a failed checkpoint write the run aborts: no further item is
\* processed, no further result is written and the run does not complete.
C10_AbortOnCheckpointFailure ==
    [][ (ckpt_errors > 0 /\ pc \in RunningPcs /\ pc' # "killed")
        => (outcome' = outcome /\ result_file' = result_file /\ pc' # "done") ]_vars

\* C11: a KeyboardInterrupt raised by the per-item function is never treated
\* as an item error.  In process_chunked it is not counted, the loop does not
\* go on and the call ends interrupted; in IsolatedLLMProcessor no further
\* attempt and no fallback is made and the call ends with the interrupt; a
\* function wrapped by handle_extraction_error passes it to its caller.
IntPcs == { "int_ckpt", "int_results" }

C11_InterruptNotAnError ==
    /\ []( /\ OutcomeIs("interrupt") # {} => pc \in IntPcs
           /\ l_func = "interrupt" => l_pc = "interrupted" /\ l_result = "KeyboardInterrupt"
           /\ h_func = "interrupt" => h_result = "KeyboardInterrupt" )
    /\ [][ /\ (pc = "loop" /\ pc' = "int_ckpt") => progress' = progress
           /\ pc \in IntPcs =>
                /\ pc' \in IntPcs \cup { "interrupted", "killed" }
                /\ pc' # "killed" => progress' = progress
           /\ l_func = "interrupt" => UNCHANGED lvars ]_vars

C11_Witness ==
    /\ l_func = "interrupt" /\ l_pc = "interrupted" /\ l_calls = 2
    /\ l_last_error /\ l_fb_calls = 0 /\ l_has_fallback

\* C12: every line of the results file is the JSON of exactly one item's
\* result, for every chunk_size and save_interval.
C12_OneResultPerLine ==
    \A k \in 1..Len(result_file) :
        ~result_file[k].wrapped /\ Len(result_file[k].ids) = 1

\* C13: between two consecutive checkpoint writes at most chunk_size items
\* are passed to process_func: the items counted in memory and not yet in
\* the checkpoint file never number more than chunk_size.
SinceCheckpoint ==
    progress.processed_items - load_checkpoint(checkpoint_file).processed_items

C13_ChunkSizeBoundsLoss ==
    (pc \in RunningPcs /\ checkpoint_file.kind # "partial")
        => SinceCheckpoint <= chunk_size

\* The rows of messages that carry a message id.
rows_of(key) ==
    { i \in DOMAIN db.messages : db.messages[i].platform_message_id = key }

\* C14: a message (same platform, same platform message id) whose INSERT was
\* executed more than once, in one import or in several, has exactly one row
\* in messages; an import that repeats an earlier one changes no row of
\* messages and ends committed, every repeated INSERT being skipped inside
\* import_messages.
C14_OneRowPerMessage ==
    /\ [](\A key \in d_again : Cardinality(rows_of(key)) = 1)
    /\ [][ (d_pc = "ready" /\ d_run > 1) =>
              /\ db'.messages = db.messages
              /\ d_pc' = "committed"
              /\ d_outcomes' \subseteq { "skipped", "no_sender" } ]_vars

C14_Witness ==
    /\ d_pc = "committed" /\ d_run = 2
    /\ d_again # {} /\ Len(db.messages) = 2
    /\ d_outcomes = { "skipped" }

\* C15: importing the same export a second time into the same database
\* leaves the four tables, aggregate columns included, exactly as the first
\* import left them.
C15_RerunSameState ==
    (d_pc = "committed" /\ d_run >= 2) => db = d_first

C15_Witness ==
    /\ d_pc = "committed" /\ d_run = 2
    /\ Len(db.conversations) = 1 /\ Len(db.participants) = 2
    /\ Len(db.contacts) = 2 /\ Len(db.messages) = 2
    /\ db.conversations[1].last_message_at > db.conversations[1].first_message_at
    /\ db = d_first

\* The rows of messages of a conversation, and those sent by a contact.
messages_in(conv) ==
    { i \in DOMAIN db.messages : db.messages[i].conversation_id = conv }
messages_from(contact) ==
    { i \in DOMAIN db.messages : db.messages[i].sender_id = contact }
times_of(rows) == { db.messages[i].timestamp : i \in rows }
MaxOf(S) == CHOOSE x \in S : \A y \in S : x >= y

\* C16: in the database after any committed imports, message_count of every
\* conversation is the number of messages rows of that conversation.
C16_MessageCount ==
    \A conv \in DOMAIN db.conversations :
        db.conversations[conv].message_count = Cardinality(messages_in(conv))

\* C17: in the database after any committed imports, every conversation that
\* has messages rows has first_message_at equal to the earliest and
\* last_message_at equal to the latest timestamp of those rows.
C17_ConversationTimes ==
    \A conv \in DOMAIN db.conversations :
        messages_in(conv) # {} =>
            /\ db.conversations[conv].first_message_at
                   = MinOf(times_of(messages_in(conv)))
            /\ db.conversations[conv].last_message_at
                   = MaxOf(times_of(messages_in(conv)))

\* C18: in the database after any committed imports, participant_count of
\* every conversation is the number of its conversation_participants rows and
\* is_group is true exactly when that number is greater than 2.
C18_ParticipantCount ==
    \A conv \in DOMAIN db.conversations :
        /\ db.conversations[conv].participant_count
               = Cardinality(participant_rows(db, conv))
        /\ db.conversations[conv].is_group
               <=> (Cardinality(participant_rows(db, conv)) > 2)

\* C19: in the database after any committed imports, message_count of every
\* contact is the number of messages rows it sent, and first_seen and
\* last_seen are the earliest and the latest timestamp of those rows.
C19_ContactStats ==
    \A contact \in DOMAIN db.contacts :
        /\ db.contacts[contact].message_count
               = Cardinality(messages_from(contact))
        /\ messages_from(contact) # {} =>
               /\ db.contacts[contact].first_seen
                      = MinOf(times_of(messages_from(contact)))
               /\ db.contacts[contact].last_seen
                      = MaxOf(times_of(messages_from(contact)))

\* The same for the contacts none of whose messages is dated before 1970.
ContactStatsSinceEpoch ==
    \A contact \in DOMAIN db.contacts :
        (\A t \in times_of(messages_from(contact)) : t >= Epoch) =>
            /\ db.contacts[contact].message_count
                   = Cardinality(messages_from(contact))
            /\ messages_from(contact) # {} =>
                   /\ db.contacts[contact].first_seen
                          = MinOf(times_of(messages_from(contact)))
                   /\ db.contacts[contact].last_seen
                          = MaxOf(times_of(messages_from(contact)))

\* C20: a chat of more than 7 participants is left out entirely: its import
\* inserts no conversations, conversation_participants or messages row and
\* ends committed; a chat of 7 or fewer participants (and at least one
\* message) gets its conversations row.
C20_LargeGroupSuppressed ==
    d_pc = "committed" =>
        IF count_participants(d_source, d_source.messages) > GroupCeiling
        THEN /\ db.conversations = << >>
             /\ db.participants = << >>
             /\ db.messages = << >>
        ELSE Len(d_source.messages) > 0 => Len(db.conversations) = 1

\* ====================================================== contact resolution
\* CalendarEventImporter._get_or_create_contact
\* (scripts/import_calendar_events.py)
\* and _get_or_create_contact of scripts/import_googletakeout_calendar.py,
\* on the contacts table of scripts/create_database.py.

MaxResolves == 3     \* persons one process resolves

GcalPlatform == "gcal"
TakeoutPlatform == "googletakeoutcal"
PlatformIds == { "p1", "p2", "a@example.com" }
Addresses == { "a@example.com", "A@Example.com", "b@example.com" }
Emails == { None } \union Addresses
\* Phone strings are sequences of characters.
PhoneX == << "+", "1", "5", "5", "5", "1", "2", "3", "4", "5", "6", "7" >>
PhoneY == << "(", "5", "5", "5", ")", " ", "1", "2", "3", "-", "4", "5", "6",
             "7" >>
Phones == { NoPhone, PhoneX, PhoneY }

\* The Contact objects handed to the calendar importer.
Persons ==
    [ platform : { GcalPlatform }, platform_id : PlatformIds, email : Emails,
      phone : Phones ]

\* The comparison of COLLATE NOCASE folds the letters A-Z.
nocase(email) == IF email = "A@Example.com" THEN "a@example.com" ELSE email

\* `if contact.email:` and `if contact.phone:` are false for None and ''.
has_email(contact) == contact.email \notin { None, "" }
has_phone(contact) == contact.phone # NoPhone

\* SELECT ... WHERE platform = ? AND platform_id = ?
by_platform(contacts, contact) ==
    { i \in 1..Len(contacts) :
        /\ contacts[i].platform = contact.platform
        /\ contacts[i].platform_id = contact.platform_id }

\* SELECT ... WHERE email = ? COLLATE NOCASE; a NULL email equals nothing.
by_email(contacts, contact) ==
    { i \in 1..Len(contacts) :
        /\ contacts[i].email # None
        /\ nocase(contacts[i].email) = nocase(contact.email) }

\* SELECT ... WHERE phone = ?: the stored string against the given string.
by_phone(contacts, contact) ==
    { i \in 1..Len(contacts) :
        /\ contacts[i].phone # NoPhone
        /\ contacts[i].phone = contact.phone }

\* cursor.fetchone() of a SELECT without ORDER BY: any one of the rows.
fetchone(contacts, rows) ==
    { [ contacts |-> contacts, contact_id |-> i ] : i \in rows }

\* INSERT INTO contacts (...): the row gets the next contact_id.
insert_contact(contacts, contact) ==
    { [ contacts |-> Append(contacts, contact),
        contact_id |-> Len(contacts) + 1 ] }

\* The same function with the phone lookup before the email lookup.
get_or_create_contact_phone_first(contacts, contact) ==
    IF by_platform(contacts, contact) # {}
    THEN fetchone(contacts, by_platform(contacts, contact))
    ELSE IF has_phone(contact) /\ by_phone(contacts, contact) # {}
    THEN fetchone(contacts, by_phone(contacts, contact))
    ELSE IF has_email(contact) /\ by_email(contacts, contact) # {}
    THEN fetchone(contacts, by_email(contacts, contact))
    ELSE insert_contact(contacts, contact)

\* _get_or_create_contact of the calendar importer: the tables and the
\* contact_id it may leave and return.
get_or_create_contact(contacts, contact) ==
    IF by_platform(contacts, contact) # {}
    THEN fetchone(contacts, by_platform(contacts, contact))
    ELSE IF has_email(contact) /\ by_email(contacts, contact) # {}
    THEN fetchone(contacts, by_email(contacts, contact))
    ELSE IF has_phone(contact) /\ by_phone(contacts, contact) # {}
    THEN fetchone(contacts, by_phone(contacts, contact))
    ELSE insert_contact(contacts, contact)

\* The Contact that the Takeout importer's function stands for: it is given
\* an email only.
takeout_contact(email) ==
    [ platform |-> TakeoutPlatform, platform_id |-> email, email |-> email,
      phone |-> NoPhone ]

\* _get_or_create_contact of the Takeout importer: email first, then
\* (platform, platform_id), no phone lookup.
takeout_get_or_create_contact(contacts, email) ==
    IF by_email(contacts, takeout_contact(email)) # {}
    THEN fetchone(contacts, by_email(contacts, takeout_contact(email)))
    ELSE IF by_platform(contacts, takeout_contact(email)) # {}
    THEN fetchone(contacts, by_platform(contacts, takeout_contact(email)))
    ELSE insert_contact(contacts, takeout_contact(email))

KFrame == << cvars, rvars, lvars, hvars, dvars, pvars, qvars, evars, bvars, svars, gvars, ivars >>

\* What a resolve leaves behind.
Resolved(contact, r) ==
    /\ k_contacts' = r.contacts
    /\ k_person' = contact
    /\ k_ret' = r.contact_id
    /\ k_count' = k_count + 1

\* The calendar importer resolves one person.
KResolve ==
    /\ k_pc = "open"
    /\ k_count < MaxResolves
    /\ \E contact \in Persons :
        \E r \in get_or_create_contact(k_contacts, contact) :
            Resolved(contact, r)
    /\ UNCHANGED << KFrame, k_pc, k_todo >>

\* The Takeout importer resolves one attendee.
KTakeout ==
    /\ k_pc = "open"
    /\ k_count < MaxResolves
    /\ \E email \in Addresses :
        \E r \in takeout_get_or_create_contact(k_contacts, email) :
            Resolved(takeout_contact(email), r)
    /\ UNCHANGED << KFrame, k_pc, k_todo >>

ContactsOpen ==
    /\ k_pc = "open"
    /\ k_contacts = << >>
    /\ k_person = NoPerson
    /\ k_ret = 0
    /\ k_count = 0
    /\ k_todo = {}

InitResolve ==
    /\ ChunkedIdle /\ RobustIdle /\ LLMOff /\ HandlerOff
    /\ DbOff /\ PhoneOff /\ RaceOff /\ CalendarOff /\ RetryOff /\ SafeDbOff /\ LedgerOff /\ InsertOff
    /\ ContactsOpen

NextResolve ==
    \/ KResolve
    \/ KTakeout

SpecResolve == InitResolve /\ [][NextResolve]_vars

\* Three persons, one known by phone only, one by email only, one carrying
\* both, under three different platform ids.
Trios ==
    { { [ platform |-> GcalPlatform, platform_id |-> ids[1], email |-> None,
          phone |-> phone ],
        [ platform |-> GcalPlatform, platform_id |-> ids[2], email |-> e1,
          phone |-> NoPhone ],
        [ platform |-> GcalPlatform, platform_id |-> ids[3], email |-> e2,
          phone |-> phone ] } :
        ids \in { f \in [ 1..3 -> PlatformIds ] :
                    \A i, j \in 1..3 : f[i] = f[j] => i = j },
        phone \in { PhoneX, PhoneY },
        e1 \in { "a@example.com", "A@Example.com" },
        e2 \in { "a@example.com", "A@Example.com" } }

\* The calendar importer processes the next of the three, in any order.
KNext ==
    /\ k_pc = "orders"
    /\ \E contact \in k_todo :
        /\ \E r \in get_or_create_contact(k_contacts, contact) :
            Resolved(contact, r)
        /\ k_todo' = k_todo \ { contact }
    /\ UNCHANGED << KFrame, k_pc >>

InitOrders ==
    /\ ChunkedIdle /\ RobustIdle /\ LLMOff /\ HandlerOff
    /\ DbOff /\ PhoneOff /\ RaceOff /\ CalendarOff /\ RetryOff /\ SafeDbOff /\ LedgerOff /\ InsertOff
    /\ k_pc = "orders"
    /\ k_contacts = << >>
    /\ k_person = NoPerson
    /\ k_ret = 0
    /\ k_count = 0
    /\ k_todo \in Trios

NextOrders == KNext

SpecOrders == InitOrders /\ [][NextOrders]_vars

\* C21: a person known only by a phone, a person known only by an email and
\* a person carrying both that phone and that email, resolved in any of the
\* six orders, leave exactly one row in contacts.
C21_OneRowAnyOrder ==
    (k_pc = "orders" /\ k_todo = {}) => Len(k_contacts) = 1

\* The rows a lookup of the person's email, phone or platform key may match.
MatchesOf(contacts, contact) ==
    [ platform |-> by_platform(contacts, contact),
      email |-> IF contact.email \in { None, "" } THEN {}
                ELSE by_email(contacts, contact),
      phone |-> IF contact.phone = NoPhone THEN {}
                ELSE by_phone(contacts, contact) ]

MaxDigits == 12      \* digits in a phone string

Digits == { "0", "1", "2", "3", "4", "5", "6", "7", "8", "9" }
Plus == "+"

\* Python str.isdigit(): not empty and digits only.
isdigit(s) == Len(s) > 0 /\ \A i \in 1..Len(s) : s[i] \in Digits

\* Python str.startswith for one character.
startswith(s, c) == Len(s) > 0 /\ s[1] = c

keeps_digit_or_plus(c) == c \in Digits \union { Plus }

\* re.sub(r'[^\d+]', '', phone)
cleaned_of(phone) == SelectSeq(phone, keeps_digit_or_plus)

\* _normalize_phone, lines 140-161.
normalize_phone(phone) ==
    IF Len(phone) = 0 THEN NoPhone
    ELSE IF isdigit(cleaned_of(phone)) /\ Len(cleaned_of(phone)) = 10
    THEN << Plus, "1" >> \o cleaned_of(phone)
    ELSE IF /\ isdigit(cleaned_of(phone))
            /\ Len(cleaned_of(phone)) = 11
            /\ startswith(cleaned_of(phone), "1")
    THEN << Plus >> \o cleaned_of(phone)
    ELSE IF isdigit(cleaned_of(phone)) /\ Len(cleaned_of(phone)) > 10
    THEN << Plus >> \o cleaned_of(phone)
    ELSE IF startswith(cleaned_of(phone), Plus) THEN cleaned_of(phone)
    ELSE phone

\* n digits, the first one lead, the others running 0, 1, 2, ...
DigitRow == << "0", "1", "2", "3", "4", "5", "6", "7", "8", "9" >>

digits_from(lead, n) ==
    [ i \in 1..n |-> IF i = 1 THEN lead ELSE DigitRow[((i - 2) % 10) + 1] ]

\* The ways a phone number is written: bare, with a dash after its third
\* digit, with the first three digits in brackets, with a plus sign inside.
Styles == { "bare", "dash", "brackets", "inner plus" }

written(digits, style) ==
    IF style = "bare" \/ Len(digits) < 4 THEN digits
    ELSE IF style = "dash"
    THEN SubSeq(digits, 1, 3) \o << "-" >> \o SubSeq(digits, 4, Len(digits))
    ELSE IF style = "brackets"
    THEN << "(" >> \o SubSeq(digits, 1, 3) \o << ")", " " >>
         \o SubSeq(digits, 4, Len(digits))
    ELSE SubSeq(digits, 1, 3) \o << Plus >> \o SubSeq(digits, 4, Len(digits))

\* The non-empty phone strings handed to _normalize_phone.
PhoneStrings ==
    { prefix \o written(digits_from(lead, n), style) :
        prefix \in { << >>, << Plus >> }, lead \in { "1", "5" },
        n \in 1..MaxDigits, style \in Styles }
    \union { PhoneX, PhoneY, << "-" >>, << Plus >> }

PFrame == << cvars, rvars, lvars, hvars, dvars, kvars, qvars, evars, bvars, svars, gvars, ivars >>

\* The caller normalizes the phone string it holds.
PNormalize ==
    /\ p_pc = "ready"
    /\ p_result' = normalize_phone(p_phone)
    /\ p_pc' = "once"
    /\ UNCHANGED << PFrame, p_phone, p_again >>

\* The caller normalizes the result.
PAgain ==
    /\ p_pc = "once"
    /\ p_again' = normalize_phone(p_result)
    /\ p_pc' = "twice"
    /\ UNCHANGED << PFrame, p_phone, p_result >>

InitPhone ==
    /\ ChunkedIdle /\ RobustIdle /\ LLMOff /\ HandlerOff
    /\ DbOff /\ ContactsOff /\ RaceOff /\ CalendarOff /\ RetryOff /\ SafeDbOff /\ LedgerOff /\ InsertOff
    /\ p_pc = "ready"
    /\ p_phone \in PhoneStrings
    /\ p_result = << >>
    /\ p_again = << >>

NextPhone ==
    \/ PNormalize
    \/ PAgain

SpecPhone == InitPhone /\ [][NextPhone]_vars

\* C25: for a non-empty phone string the result is the string without the
\* characters other than digits and '+', with '+1' in front if that leaves
\* 10 digits, with '+' in front if it leaves 11 digits starting with 1, and
\* as it is if it starts with '+'; the result holds digits and '+' only, and
\* normalizing the result returns the result.
C25_NormalizedPhone ==
    /\ p_pc \in { "once", "twice" } =>
        /\ isdigit(cleaned_of(p_phone)) /\ Len(cleaned_of(p_phone)) = 10
            => p_result = << Plus, "1" >> \o cleaned_of(p_phone)
        /\ ( /\ isdigit(cleaned_of(p_phone))
             /\ Len(cleaned_of(p_phone)) = 11
             /\ cleaned_of(p_phone)[1] = "1" )
            => p_result = << Plus >> \o cleaned_of(p_phone)
        /\ startswith(cleaned_of(p_phone), Plus)
            => p_result = cleaned_of(p_phone)
        /\ \A i \in 1..Len(p_result) : p_result[i] \in Digits \union { Plus }
    /\ p_pc = "twice" => p_again = p_result

\* C24: when neither the platform key nor the email of a person matches a
\* row and a row holds a phone that normalizes to the same value as the
\* person's phone, the resolve returns such a row and inserts nothing.
C24_NormalizedPhoneLookup ==
    [][ k_count' = k_count + 1 =>
          LET m == MatchesOf(k_contacts, k_person')
              same == { i \in 1..Len(k_contacts) :
                          /\ k_contacts[i].phone # NoPhone
                          /\ normalize_phone(k_contacts[i].phone)
                               = normalize_phone(k_person'.phone) }
          IN  ( /\ m.platform = {}
                /\ m.email = {}
                /\ k_person'.phone # NoPhone
                /\ same # {} )
              => k_ret' \in same /\ k_contacts' = k_contacts ]_vars

\* ====================================================== concurrent resolves
\* Two calendar importers (scripts/import_calendar_events.py), each with its
\* own sqlite3 connection (connect, 43-48) and one commit at the end of its
\* import (import_events, 91).

Procs == { "A", "B" }

\* Two persons with one alias: the same (platform, platform_id), or the same
\* email.
SameAlias(a, b) ==
    \/ a.platform = b.platform /\ a.platform_id = b.platform_id
    \/ a.email # None /\ a.email = b.email

\* The rows a connection reads: the committed ones and its own.
visible(proc) == q_committed \o q_pending[proc]

\* The three SELECTs of _get_or_create_contact, 260-286: the rows the
\* first successful lookup matches.
select_contact(contacts, contact) ==
    IF by_platform(contacts, contact) # {} THEN by_platform(contacts, contact)
    ELSE IF has_email(contact) /\ by_email(contacts, contact) # {}
    THEN by_email(contacts, contact)
    ELSE IF has_phone(contact) /\ by_phone(contacts, contact) # {}
    THEN by_phone(contacts, contact)
    ELSE {}

QFrame == << cvars, rvars, lvars, hvars, dvars, kvars, pvars, evars, bvars, svars, gvars, ivars >>

\* The lookups of a resolve: a row is found and returned, or none is.
QSelect(proc) ==
    /\ q_pc[proc] = "select"
    /\ IF select_contact(visible(proc), q_person[proc]) = {}
       THEN /\ q_pc' = [ q_pc EXCEPT ![proc] = "insert" ]
            /\ UNCHANGED q_ret
       ELSE /\ \E id \in select_contact(visible(proc), q_person[proc]) :
                q_ret' = [ q_ret EXCEPT ![proc] = id ]
            /\ q_pc' = [ q_pc EXCEPT ![proc] = "commit" ]
    /\ UNCHANGED << QFrame, q_person, q_committed, q_pending, q_lock,
                    q_error >>

\* The INSERT of a resolve, 289-299, while the other connection's
\* transaction holds the write lock: after the busy timeout sqlite3 raises
\* OperationalError("database is locked").
QInsertLocked(proc) ==
    /\ q_pc[proc] = "insert"
    /\ q_lock \notin { "free", proc }
    /\ q_error' = [ q_error EXCEPT ![proc] = "OperationalError" ]
    /\ q_pc' = [ q_pc EXCEPT ![proc] = "commit" ]
    /\ UNCHANGED << QFrame, q_person, q_committed, q_pending, q_lock, q_ret >>

\* The INSERT of a resolve with the write lock free or its own: it opens the
\* transaction, and UNIQUE(platform, platform_id) is checked against the
\* rows committed by now.
QInsert(proc) ==
    /\ q_pc[proc] = "insert"
    /\ q_lock \in { "free", proc }
    /\ q_lock' = proc
    /\ IF by_platform(visible(proc), q_person[proc]) # {}
       THEN /\ q_error' = [ q_error EXCEPT ![proc] = "IntegrityError" ]
            /\ UNCHANGED << q_pending, q_ret >>
       ELSE /\ q_pending' =
                [ q_pending EXCEPT ![proc] = Append(@, q_person[proc]) ]
            /\ q_ret' = [ q_ret EXCEPT ![proc] = Len(visible(proc)) + 1 ]
            /\ UNCHANGED q_error
    /\ q_pc' = [ q_pc EXCEPT ![proc] = "commit" ]
    /\ UNCHANGED << QFrame, q_person, q_committed >>

\* self.conn.commit() at the end of the import.
QCommit(proc) ==
    /\ q_pc[proc] = "commit"
    /\ q_committed' = visible(proc)
    /\ q_pending' = [ q_pending EXCEPT ![proc] = << >> ]
    /\ q_lock' = IF q_lock = proc THEN "free" ELSE q_lock
    /\ q_pc' = [ q_pc EXCEPT ![proc] = "done" ]
    /\ UNCHANGED << QFrame, q_person, q_ret, q_error >>

InitRace ==
    /\ ChunkedIdle /\ RobustIdle /\ LLMOff /\ HandlerOff
    /\ DbOff /\ ContactsOff /\ PhoneOff /\ CalendarOff /\ RetryOff /\ SafeDbOff /\ LedgerOff /\ InsertOff
    /\ q_pc = [ proc \in Procs |-> "select" ]
    /\ q_person \in { f \in [ Procs -> Persons ] : SameAlias(f["A"], f["B"]) }
    /\ q_committed = << >>
    /\ q_pending = [ proc \in Procs |-> << >> ]
    /\ q_lock = "free"
    /\ q_ret = [ proc \in Procs |-> 0 ]
    /\ q_error = [ proc \in Procs |-> "-" ]

NextRace ==
    \E proc \in Procs :
        \/ QSelect(proc)
        \/ QInsertLocked(proc)
        \/ QInsert(proc)
        \/ QCommit(proc)

SpecRace == InitRace /\ [][NextRace]_vars

\* C22: when two importers have resolved persons with one alias against an
\* empty contacts table and committed, whatever the order of their steps,
\* neither resolve raised, contacts holds exactly one row, and both resolves
\* returned its id.
C22_ConcurrentResolve ==
    (\A proc \in Procs : q_pc[proc] = "done") =>
        /\ \A proc \in Procs : q_error[proc] = "-"
        /\ Len(q_committed) = 1
        /\ \A proc \in Procs : q_ret[proc] = 1

\* ========================================================= calendar import
\* CalendarEventImporter._import_calendar_message and
\* _get_or_create_calendar_conversation (scripts/import_calendar_events.py),
\* on a database created by scripts/create_database.py; the Message objects
\* are those of GoogleCalendarExtractor (src/extractors/gcal_extractor.py),
\* and validate_contact is that of src/utils/validators.py.

MaxEvents == 2       \* messages one import hands to _import_calendar_message
MaxAttendees == 2    \* attendees of an event

EventKeys == { "e1", "e2" }
EventEmails == { "", "a@example.com", "b@example.com" }
OrganizerEmails == { "", "a@example.com" }

\* gcal_extractor 380-390: the organizer of an event.
organizer(email) ==
    [ platform |-> GcalPlatform,
      platform_id |-> IF email = "" THEN "system" ELSE email,
      email |-> email, phone |-> NoPhone ]

\* gcal_extractor 393-404: an attendee of an event.
attendee(email) ==
    [ platform |-> GcalPlatform, platform_id |-> email, email |-> email,
      phone |-> NoPhone ]

AttendeeLists ==
    UNION { [ 1..n -> { attendee(email) : email \in EventEmails } ] :
              n \in 0..MaxAttendees }

\* gcal_extractor 406-408: an event without attendees has its organizer as
\* its only recipient.
recipients_of(sender, attendees) ==
    IF Len(attendees) = 0 THEN << sender >> ELSE attendees

\* The Message objects of the ledger; time 0 stands for None.
EventMessages ==
    { [ key |-> key, sender |-> organizer(email),
        recipients |-> recipients_of(organizer(email), attendees),
        event_start |-> event_start, event_end |-> event_end ] :
        key \in EventKeys, email \in OrganizerEmails,
        attendees \in AttendeeLists,
        event_start \in 0..MaxTime, event_end \in 0..MaxTime }

\* The rows of a table that satisfy a condition.
rows_where(table, Cond(_)) == { i \in 1..Len(table) : Cond(table[i]) }

\* _get_or_create_calendar_conversation, 221-255: the tables and the
\* conversation_id.
get_or_create_calendar_conversation(d, message) ==
    IF \E i \in 1..Len(d.conversations) : d.conversations[i] = message.key
    THEN [ db |-> d,
           id |-> CHOOSE i \in 1..Len(d.conversations) :
                    d.conversations[i] = message.key ]
    ELSE [ db |-> [ d EXCEPT !.conversations = Append(@, message.key) ],
           id |-> Len(d.conversations) + 1 ]

\* INSERT OR IGNORE INTO conversation_participants, 207-211: no row is
\* added when UNIQUE(conversation_id, contact_id) has the pair already.
insert_or_ignore(participants, pair) ==
    IF \E i \in 1..Len(participants) : participants[i] = pair
    THEN participants
    ELSE Append(participants, pair)

\* One pass of the loop over message.recipients, 205-212.
link_recipient(d, conv_id, recipient) ==
    Once({ [ d EXCEPT
               !.contacts = r.contacts,
               !.participants =
                   insert_or_ignore(@, << conv_id, r.contact_id >>) ] :
             r \in get_or_create_contact(d.contacts, recipient) })

RECURSIVE link_recipients(_, _, _)
link_recipients(d, conv_id, recipients) ==
    IF Len(recipients) = 0 THEN d
    ELSE link_recipients(link_recipient(d, conv_id, Head(recipients)),
                         conv_id, Tail(recipients))

\* INSERT INTO messages, 120-143.
insert_event_message(d, message, conv_id, sender_id) ==
    [ d EXCEPT !.messages =
        Append(@, [ key |-> message.key, conversation_id |-> conv_id,
                    sender_id |-> sender_id ]) ]

\* INSERT INTO calendar_events, 147-203, made when message.event_start is
\* set, with the start and the end the message carries.
insert_calendar_event(d, message) ==
    IF message.event_start = 0 THEN d
    ELSE [ d EXCEPT !.calendar_events =
             Append(@, [ message_id |-> Len(d.messages),
                         event_start |-> message.event_start,
                         event_end |-> message.event_end ]) ]

\* The database after optimize_calendar_schema.py 22-38 has run on it.
OptimizedCalendarDb == [ EmptyCalendarDb EXCEPT !.check_event_times = TRUE ]

\* Lines 215-217: except sqlite3.IntegrityError logs and returns False;
\* what the record wrote before the failing statement stays in the
\* transaction that import_events commits (line 91).
after_integrity_error(before, now) == now

\* The trigger check_event_times aborts the INSERT INTO calendar_events of
\* an event that ends before it starts (sqlite3.IntegrityError).
calendar_insert_fails(d, message) ==
    /\ d.check_event_times
    /\ message.event_start # 0
    /\ message.event_end # 0
    /\ message.event_end < message.event_start

\* _import_calendar_message, 95-219: the tables it leaves and what it
\* returns.
import_calendar_message(d, message) ==
    IF \E i \in 1..Len(d.messages) : d.messages[i].key = message.key
    THEN [ db |-> d, result |-> "False" ]
    ELSE Once(UNION {
           { IF calendar_insert_fails(d, message)
             THEN [ db |-> after_integrity_error(d,
                             insert_event_message(
                               [ c.db EXCEPT !.contacts = s.contacts ],
                               message, c.id, s.contact_id)),
                    result |-> "False" ]
             ELSE [ db |-> link_recipients(
                             insert_calendar_event(
                               insert_event_message(
                                 [ c.db EXCEPT !.contacts = s.contacts ],
                                 message, c.id, s.contact_id),
                               message),
                             c.id, message.recipients),
                    result |-> "True" ] :
             s \in get_or_create_contact(c.db.contacts, message.sender) } :
           c \in { get_or_create_calendar_conversation(d, message) } })

\* The contact dictionaries handed to validate_contact: a key may be
\* missing, and platform_id and email may be None or ''; none has a phone.
ContactDicts ==
    UNION { [ keys -> { None, "", "a@example.com", "A@Example.com",
                        "not an email", GcalPlatform } ] :
              keys \in SUBSET { "platform_id", "platform", "email" } }

\* EMAIL_REGEX, validators.py 12: local part, '@', domain with a dot.
validate_email(email) == email = None \/ email \in Addresses

\* PLATFORM_REGEX, validators.py 15.
validate_platform(platform) == platform \in { GcalPlatform, TakeoutPlatform }

\* validate_contact, validators.py 54-82: the list of errors, in order.
validate_contact(contact) ==
    (IF "platform_id" \notin DOMAIN contact
     THEN << "Missing required field: platform_id" >> ELSE << >>)
    \o (IF "platform" \notin DOMAIN contact
        THEN << "Missing required field: platform" >> ELSE << >>)
    \o (IF /\ "email" \in DOMAIN contact
           /\ contact["email"] # None
           /\ ~ validate_email(contact["email"])
        THEN << "Invalid email format" >> ELSE << >>)
    \o (IF /\ "platform" \in DOMAIN contact
           /\ ~ validate_platform(contact["platform"])
        THEN << "Invalid platform" >> ELSE << >>)

EFrame == << cvars, rvars, lvars, hvars, dvars, kvars, pvars, qvars, bvars, svars, gvars, ivars >>

\* import_events, 80-89: the next message of the ledger is imported.
EImport ==
    /\ e_pc = "open"
    /\ e_count < MaxEvents
    /\ \E message \in EventMessages :
        \E r \in { import_calendar_message(e_db, message) } :
            /\ e_db' = r.db
            /\ e_result' = r.result
            /\ e_message' = message
    /\ e_count' = e_count + 1
    /\ UNCHANGED << EFrame, e_pc, e_checked, e_errors >>

\* A caller validates the contact dictionary it holds.
EValidate ==
    /\ e_pc = "validate"
    /\ e_errors' = validate_contact(e_checked)
    /\ e_pc' = "validated"
    /\ UNCHANGED << EFrame, e_db, e_message, e_result, e_count, e_checked >>

CalendarOpen ==
    /\ e_pc = "open"
    /\ e_db \in { EmptyCalendarDb, OptimizedCalendarDb }
    /\ e_message = NoMessage
    /\ e_result = "-"
    /\ e_count = 0
    /\ e_checked = << >>
    /\ e_errors = << >>

ValidateReady ==
    /\ e_pc = "validate"
    /\ e_db = EmptyCalendarDb
    /\ e_message = NoMessage
    /\ e_result = "-"
    /\ e_count = 0
    /\ e_checked \in ContactDicts
    /\ e_errors = << >>

InitCalendar ==
    /\ ChunkedIdle /\ RobustIdle /\ LLMOff /\ HandlerOff
    /\ DbOff /\ ContactsOff /\ PhoneOff /\ RaceOff /\ RetryOff /\ SafeDbOff /\ LedgerOff /\ InsertOff
    /\ CalendarOpen \/ ValidateReady

NextCalendar ==
    \/ EImport
    \/ EValidate

SpecCalendar == InitCalendar /\ [][NextCalendar]_vars

\* Python's `not value` for a platform_id: None or the empty string.
empty_id(platform_id) == platform_id \in { None, "" }

\* C26: validate_contact returns at least one error for a contact whose
\* platform_id is None or the empty string, and no row of contacts has an
\* empty platform_id.
C26_EmptyPlatformId ==
    /\ ( /\ e_pc = "validated"
         /\ "platform_id" \in DOMAIN e_checked
         /\ empty_id(e_checked["platform_id"]) )
        => Len(e_errors) > 0
    /\ \A i \in 1..Len(e_db.contacts) :
        ~ empty_id(e_db.contacts[i].platform_id)

\* C27: no row of calendar_events has an end earlier than its start.
C27_EndNotBeforeStart ==
    \A i \in 1..Len(e_db.calendar_events) :
        e_db.calendar_events[i].event_end # 0
            => e_db.calendar_events[i].event_end
                 >= e_db.calendar_events[i].event_start

\* C28: after a message is imported, its sender and each of its recipients
\* is linked to its conversation by a row of conversation_participants, and
\* no pair (conversation_id, contact_id) has two rows.
C28_ParticipantsLinked ==
    /\ (e_pc = "open" /\ e_result = "True") =>
        LET conv_id == CHOOSE i \in 1..Len(e_db.conversations) :
                         e_db.conversations[i] = e_message.key
            linked(contact) ==
              \E id \in select_contact(e_db.contacts, contact) :
                \E i \in 1..Len(e_db.participants) :
                    e_db.participants[i] = << conv_id, id >>
        IN  /\ linked(e_message.sender)
            /\ \A i \in 1..Len(e_message.recipients) :
                linked(e_message.recipients[i])
    /\ \A i, j \in 1..Len(e_db.participants) :
        e_db.participants[i] = e_db.participants[j] => i = j

\* ======================================================= retry_with_backoff
\* retry_with_backoff (src/utils/error_handling.py 28-77).  Delays are whole
\* seconds.

MaxAttempts == 3     \* max_attempts ranges over 0..MaxAttempts
MaxDelay == 3        \* initial_delay and max_delay range over 1..MaxDelay
MaxFactor == 2       \* backoff_factor ranges over 0..MaxFactor

\* What a call of func does: it returns, raises an exception of one of the
\* types in `exceptions`, or raises another exception.
CallOutcomes == { "ok", "listed", "unlisted" }

min(a, b) == IF b < a THEN b ELSE a

\* The test never passes: every failed attempt is followed by a sleep.
last_attempt_never(attempt, max_attempts) == FALSE

\* `if attempt == max_attempts`, line 60.
last_attempt(attempt, max_attempts) == attempt = max_attempts

\* `delay = min(delay * backoff_factor, max_delay)`, line 73.
next_delay(delay, backoff_factor, max_delay) ==
    min(delay * backoff_factor, max_delay)

BFrame == << cvars, rvars, lvars, hvars, dvars, kvars, pvars, qvars, evars,
             b_max_attempts, b_initial_delay, b_max_delay, b_backoff_factor,
             b_on_retry, svars, gvars, ivars >>

\* Lines 52-55 with an empty range: the loop body never runs and line 75
\* raises last_exception, which is None.
BNoAttempt ==
    /\ b_pc = "call"
    /\ b_attempt > b_max_attempts
    /\ Len(b_outcomes) = 0
    /\ b_result' = [ kind |-> "TypeError", of |-> 0 ]
    /\ b_pc' = "done"
    /\ UNCHANGED << BFrame, b_attempt, b_delay, b_outcomes, b_sleeps >>

\* `return func(*args, **kwargs)`, line 56: func returns.
BReturn ==
    /\ b_pc = "call"
    /\ b_attempt <= b_max_attempts
    /\ b_outcomes' = Append(b_outcomes, "ok")
    /\ b_result' = [ kind |-> "returned", of |-> 0 ]
    /\ b_pc' = "done"
    /\ UNCHANGED << BFrame, b_attempt, b_delay, b_sleeps >>

\* func raises an exception that `except exceptions` does not catch.
BUnlisted ==
    /\ b_pc = "call"
    /\ b_attempt <= b_max_attempts
    /\ b_outcomes' = Append(b_outcomes, "unlisted")
    /\ b_result' = [ kind |-> "raised", of |-> b_attempt ]
    /\ b_pc' = "done"
    /\ UNCHANGED << BFrame, b_attempt, b_delay, b_sleeps >>

\* func raises a listed exception, lines 57-70: on the last attempt it is
\* raised again; otherwise on_retry is called, if there is one, and may
\* itself raise.
BListed ==
    /\ b_pc = "call"
    /\ b_attempt <= b_max_attempts
    /\ b_outcomes' = Append(b_outcomes, "listed")
    /\ \/ /\ last_attempt(b_attempt, b_max_attempts)
          /\ b_result' = [ kind |-> "raised", of |-> b_attempt ]
          /\ b_pc' = "done"
       \/ /\ ~ last_attempt(b_attempt, b_max_attempts)
          /\ b_pc' = "sleep"
          /\ UNCHANGED b_result
       \/ /\ ~ last_attempt(b_attempt, b_max_attempts)
          /\ b_on_retry
          /\ b_result' = [ kind |-> "raised by on_retry", of |-> 0 ]
          /\ b_pc' = "done"
    /\ UNCHANGED << BFrame, b_attempt, b_delay, b_sleeps >>

\* Lines 72-73 and the loop header: the sleep, the next delay, the next
\* attempt; after the last pass of the loop line 75 raises last_exception.
BSleep ==
    /\ b_pc = "sleep"
    /\ b_sleeps' = Append(b_sleeps, b_delay)
    /\ b_delay' = next_delay(b_delay, b_backoff_factor, b_max_delay)
    /\ b_attempt' = b_attempt + 1
    /\ IF b_attempt + 1 > b_max_attempts
       THEN /\ b_result' = [ kind |-> "raised", of |-> b_attempt ]
            /\ b_pc' = "done"
       ELSE /\ b_pc' = "call"
            /\ UNCHANGED b_result
    /\ UNCHANGED << BFrame, b_outcomes >>

\* wrapper is entered: `delay = initial_delay`, attempt = 1.
RetryReady ==
    /\ b_pc = "call"
    /\ b_max_attempts \in 0..MaxAttempts
    /\ b_initial_delay \in 1..MaxDelay
    /\ b_max_delay \in 1..MaxDelay
    /\ b_backoff_factor \in 0..MaxFactor
    /\ b_on_retry \in BOOLEAN
    /\ b_attempt = 1
    /\ b_delay = b_initial_delay
    /\ b_outcomes = << >>
    /\ b_sleeps = << >>
    /\ b_result = NoOutcome

InitRetry ==
    /\ ChunkedIdle /\ RobustIdle /\ LLMOff /\ HandlerOff
    /\ DbOff /\ ContactsOff /\ PhoneOff /\ RaceOff /\ CalendarOff /\ SafeDbOff /\ LedgerOff /\ InsertOff
    /\ RetryReady

NextRetry ==
    \/ BNoAttempt
    \/ BReturn
    \/ BUnlisted
    \/ BListed
    \/ BSleep

SpecRetry == InitRetry /\ [][NextRetry]_vars

\* C29: func is called at most max_attempts times; a call that returns is
\* the last call and the wrapper returns; a call that raises an exception
\* of no listed type is the last call and the wrapper raises that
\* exception; and when max_attempts calls have all raised a listed
\* exception the wrapper raises the exception of the last call, having
\* slept max_attempts - 1 times.
C29_BoundedAttempts ==
    /\ b_pc # "off" => Len(b_outcomes) <= b_max_attempts
    /\ \A i \in 1..Len(b_outcomes) :
        b_outcomes[i] # "listed" =>
            /\ i = Len(b_outcomes)
            /\ b_pc = "done"
            /\ b_result = IF b_outcomes[i] = "ok"
                          THEN [ kind |-> "returned", of |-> 0 ]
                          ELSE [ kind |-> "raised", of |-> i ]
    /\ ( /\ b_pc = "done"
         /\ Len(b_outcomes) >= 1
         /\ Len(b_outcomes) = b_max_attempts
         /\ \A i \in 1..Len(b_outcomes) : b_outcomes[i] = "listed" )
        => /\ b_result = [ kind |-> "raised", of |-> b_max_attempts ]
           /\ Len(b_sleeps) = b_max_attempts - 1

\* Three calls out of three raised a listed exception, with two sleeps
\* between them, and the third exception reached the caller.
C29_Witness ==
    /\ b_pc = "done"
    /\ b_max_attempts = 3
    /\ b_outcomes = << "listed", "listed", "listed" >>
    /\ Len(b_sleeps) = 2
    /\ b_result = [ kind |-> "raised", of |-> 3 ]

RECURSIVE power(_, _)
power(base, exponent) ==
    IF exponent = 0 THEN 1 ELSE base * power(base, exponent - 1)

\* C30: the k-th sleep of a call lasts
\* min(initial_delay * backoff_factor^(k-1), max_delay), and so never longer
\* than max_delay.
C30_CappedExponentialDelay ==
    \A k \in 1..Len(b_sleeps) :
        /\ b_sleeps[k] =
             min(b_initial_delay * power(b_backoff_factor, k - 1), b_max_delay)
        /\ b_sleeps[k] <= b_max_delay

\* C34: exhausting the retries does not abort the run.  llm_func is called
\* at most max_retries + 1 times and the fallback at most once; the fallback
\* is called only after max_retries + 1 calls of llm_func that all raised an
\* ordinary exception or returned an empty result; and when the last call
\* made (of llm_func or of the fallback) failed that way and continue_on_error
\* is true, __call__ returns None: it raises only if continue_on_error is
\* false.
LLMEnded == { "returned", "raised", "interrupted" }

C34_ExhaustedReturnsNone ==
    /\ l_calls <= l_max_retries + 1
    /\ l_fb_calls <= 1
    /\ (l_pc = "fallback" \/ l_fb_calls = 1) =>
            /\ l_calls = l_max_retries + 1
            /\ l_result # "llm"
    /\ l_pc = "raised" => ~l_continue
    /\ (l_pc \in LLMEnded /\ l_continue /\ l_func \in { "error", "empty" }) =>
            /\ l_pc = "returned"
            /\ l_result = "None"

C34_Witness ==
    /\ l_pc = "returned" /\ l_result = "None" /\ l_continue
    /\ l_max_retries = 1 /\ l_calls = 2 /\ l_has_fallback /\ l_fb_calls = 1
    /\ l_func = "error" /\ l_last_error

\* C37: after every run of process_chunked that has ended normally, fresh
\* or resumed, the counters of the progress it leaves (in memory and in the
\* checkpoint file) add up: processed_items = successful_items +
\* failed_items + skipped_items.
adds_up(p) ==
    p.processed_items = p.successful_items + p.failed_items + p.skipped_items

C37_CountersAddUp ==
    pc = "done" => adds_up(progress) /\ adds_up(checkpoint_file.data)

\* C38: in the checkpoint file after any sequence of fresh and resumed runs
\* over items with distinct ids, processed_ids holds no id twice, failed_ids
\* holds no id twice, and no id is in both.
no_id_twice(s) == \A i, j \in 1..Len(s) : s[i] = s[j] => i = j

C38_IdListsDisjoint ==
    LET saved == checkpoint_file.data
    IN  /\ no_id_twice(saved.processed_ids)
        /\ no_id_twice(saved.failed_ids)
        /\ SeqToSet(saved.processed_ids) \cap SeqToSet(saved.failed_ids) = {}

\* C39: the projection of one calendar record is all-or-nothing.  A record
\* whose calendar_events INSERT failed has no messages row in the committed
\* database, and every messages row has exactly one calendar_events row.
events_of(d, message_id) ==
    { i \in 1..Len(d.calendar_events) :
        d.calendar_events[i].message_id = message_id }

C39_AllOrNothing ==
    /\ (e_pc = "open" /\ e_result = "False"
            /\ calendar_insert_fails(e_db, e_message)) =>
         \A i \in 1..Len(e_db.messages) :
            e_db.messages[i].key = e_message.key => events_of(e_db, i) # {}
    /\ \A i \in 1..Len(e_db.messages) : Cardinality(events_of(e_db, i)) = 1

\* ----------------------------------------------------- safe_db_connection
MaxRows == 3         \* rows a block may write and the file may hold

Rows == 1..MaxRows

\* How the body of the with statement can end.
BlockOutcomes == { "normal", "sqlite3.Error", "Exception", "KeyboardInterrupt" }

SFrame == << cvars, rvars, lvars, hvars, dvars, kvars, pvars, qvars, evars,
             bvars, s_exists, s_before, gvars, ivars >>

\* A manager that commits whatever the block did.
block_left_commit(how) == "commit"

\* Lines 226-236: where the generator goes on when the block is left:
\* conn.commit() after the yield, one of the two except clauses, or, for
\* an exception that is not an Exception, the finally clause alone.
block_left(how) ==
    CASE how = "normal" -> "commit"
      [] how \in { "sqlite3.Error", "Exception" } -> "rollback"
      [] OTHER -> "close"

\* Lines 229-236: `raise ExtractionError(...) from e` for a sqlite3.Error,
\* a bare raise for any other Exception.
reraised(exc) == IF exc = "sqlite3.Error" THEN "ExtractionError" ELSE exc

\* Lines 217-225: the path is checked, the connection opened and yielded.
\* Without the file FileNotFoundError is raised with conn still None.
SEnter ==
    /\ s_pc = "enter"
    /\ IF s_exists
       THEN /\ s_open' = TRUE
            /\ s_pc' = "block"
            /\ UNCHANGED << s_raise, s_exit >>
       ELSE /\ s_raise' = "FileNotFoundError"
            /\ s_exit' = "FileNotFoundError"
            /\ s_pc' = "left"
            /\ UNCHANGED s_open
    /\ UNCHANGED << SFrame, s_file, s_pending, s_written, s_block >>

\* The block inserts a row through conn; sqlite3 opens the transaction.
SWrite ==
    /\ s_pc = "block"
    /\ \E row \in Rows \ (s_file \cup s_pending) :
        /\ s_pending' = s_pending \cup { row }
        /\ s_written' = s_written \cup { row }
    /\ UNCHANGED << SFrame, s_pc, s_file, s_open, s_block, s_raise, s_exit >>

\* The block is left, by running to its end or by an exception.
SBlockEnd ==
    /\ s_pc = "block"
    /\ \E how \in BlockOutcomes :
        /\ s_block' = how
        /\ s_raise' = IF how = "normal" THEN "-" ELSE how
        /\ s_pc' = block_left(how)
    /\ UNCHANGED << SFrame, s_file, s_pending, s_written, s_open, s_exit >>

\* Line 227: conn.commit() writes the transaction to the file, or fails
\* with a sqlite3.Error that the first except clause receives.
SCommit ==
    /\ s_pc = "commit"
    /\ \/ /\ s_file' = s_file \cup s_pending
          /\ s_pending' = {}
          /\ s_pc' = "close"
          /\ UNCHANGED s_raise
       \/ /\ s_raise' = "sqlite3.Error"
          /\ s_pc' = "rollback"
          /\ UNCHANGED << s_file, s_pending >>
    /\ UNCHANGED << SFrame, s_written, s_open, s_block, s_exit >>

\* Lines 229-236: conn.rollback() and the exception is raised again.
SRollback ==
    /\ s_pc = "rollback"
    /\ s_pending' = {}
    /\ s_raise' = reraised(s_raise)
    /\ s_pc' = "close"
    /\ UNCHANGED << SFrame, s_file, s_written, s_open, s_block, s_exit >>

\* Lines 237-242: conn.close(), which drops a transaction still open; the
\* with statement ends for the caller.
SClose ==
    /\ s_pc = "close"
    /\ s_open' = FALSE
    /\ s_pending' = {}
    /\ s_exit' = IF s_raise = "-" THEN "normal" ELSE s_raise
    /\ s_pc' = "left"
    /\ UNCHANGED << SFrame, s_file, s_written, s_block, s_raise >>

\* safe_db_connection(db_path) is called on a path that may hold a
\* database with some rows.
SafeDbReady ==
    /\ s_pc = "enter"
    /\ s_exists \in BOOLEAN
    /\ s_file \in SUBSET Rows
    /\ ~ s_exists => s_file = {}
    /\ s_before = s_file
    /\ s_pending = {}
    /\ s_written = {}
    /\ s_open = FALSE
    /\ s_block = "-"
    /\ s_raise = "-"
    /\ s_exit = "-"

InitSafeDb ==
    /\ ChunkedIdle /\ RobustIdle /\ LLMOff /\ HandlerOff
    /\ DbOff /\ ContactsOff /\ PhoneOff /\ RaceOff /\ CalendarOff /\ RetryOff /\ InsertOff
    /\ LedgerOff
    /\ SafeDbReady

NextSafeDb ==
    \/ SEnter
    \/ SWrite
    \/ SBlockEnd
    \/ SCommit
    \/ SRollback
    \/ SClose

SpecSafeDb == InitSafeDb /\ [][NextSafeDb]_vars

MaxLedger == 3       \* messages a ledger holds
MaxStamp == 2        \* timestamps range over 1..MaxStamp

MessageIds == { "gmail:m1", "gmail:m2" }

\* Two Contact objects with the same address and different display names.
ContactA == [ name |-> "A", email |-> "a@example.com" ]
ContactB == [ name |-> "B", email |-> "a@example.com" ]

\* A datetime: naive (fromtimestamp, an all-day date) or with a tzinfo
\* (a dateTime with an offset).
Stamps == [ at : 1..MaxStamp, aware : BOOLEAN ]

Bodies == { << >>, << "h", "i" >> }

\* The Message objects handed to add_message.  A message from B is a reply
\* to A.
LedgerMessages ==
    { [ message_id |-> id, timestamp |-> stamp, sender |-> sender,
        recipients |-> IF sender = ContactB THEN << ContactA >> ELSE << >>,
        body |-> body ] :
        id \in MessageIds, stamp \in Stamps, sender \in { ContactA, ContactB },
        body \in Bodies }

\* Comparing two datetimes raises TypeError when exactly one has a tzinfo.
comparable(a, b) == a.aware = b.aware

\* The keys _register_contacts files a contact under, schema.py 168-173
\* (platform_id is the address, the platform is gmail; no phone).
registry_keys(contact) ==
    IF contact.email \in { None, "" } THEN {}
    ELSE { << "email", contact.email >>, << "gmail", contact.email >> }

\* self.contact_registry[key] = contact for each key of the contact.
register_contact(registry, contact) ==
    { item \in registry : item.key \notin registry_keys(contact) }
    \cup { [ key |-> key, contact |-> contact ] : key \in registry_keys(contact) }

\* _register_contacts, schema.py 163-173: the sender, then the recipients.
RECURSIVE register_contacts(_, _)
register_contacts(registry, contacts) ==
    IF Len(contacts) = 0 THEN registry
    ELSE register_contacts(register_contact(registry, Head(contacts)),
                           Tail(contacts))

\* add_message, schema.py 157-161: the ledger after the call and how the
\* call ended.  start is a naive datetime or 0 for None.
add_message(start, messages, registry, message) ==
    IF start # 0 /\ message.timestamp.aware
    THEN [ messages |-> messages, registry |-> registry, how |-> "TypeError" ]
    ELSE IF start = 0 \/ message.timestamp.at >= start
    THEN [ messages |-> Append(messages, message),
           registry |-> register_contacts(registry,
                            << message.sender >> \o message.recipients),
           how |-> "added" ]
    ELSE [ messages |-> messages, registry |-> registry, how |-> "filtered" ]

\* One step of a stable sort: message goes after the messages that are not
\* later than it.
RECURSIVE insert_by_timestamp(_, _)
insert_by_timestamp(sorted, message) ==
    IF Len(sorted) = 0 THEN << message >>
    ELSE IF Head(sorted).timestamp.at <= message.timestamp.at
    THEN << Head(sorted) >> \o insert_by_timestamp(Tail(sorted), message)
    ELSE << message >> \o sorted

RECURSIVE sorted_by_timestamp(_, _)
sorted_by_timestamp(sorted, messages) ==
    IF Len(messages) = 0 THEN sorted
    ELSE sorted_by_timestamp(insert_by_timestamp(sorted, Head(messages)),
                             Tail(messages))

\* generate_timeline, schema.py 194-196: sorted(self.messages, key=lambda
\* m: m.timestamp), which raises TypeError when it compares a naive with an
\* aware timestamp.
generate_timeline(messages) ==
    IF \E i, j \in 1..Len(messages) :
          ~ comparable(messages[i].timestamp, messages[j].timestamp)
    THEN [ kind |-> "TypeError", messages |-> << >> ]
    ELSE [ kind |-> "list",
           messages |-> sorted_by_timestamp(<< >>, messages) ]

GFrame == << cvars, rvars, lvars, hvars, dvars, kvars, pvars, qvars, evars,
             bvars, svars, g_start_date, ivars >>

\* A caller hands a message to add_message.
GAdd ==
    /\ g_pc = "open"
    /\ Len(g_messages) < MaxLedger
    /\ \E message \in LedgerMessages :
        \E r \in { add_message(g_start_date, g_messages, g_registry, message) } :
            /\ g_messages' = r.messages
            /\ g_registry' = r.registry
            /\ g_added' = r.how
            /\ g_arg' = message
    /\ g_source' = "caller"
    /\ UNCHANGED << GFrame, g_pc, g_timeline, g_checked, g_errors >>

\* export_to_json, schema.py 198-216: the timeline that is written.
GExport ==
    /\ g_pc = "open"
    /\ g_timeline' = generate_timeline(g_messages)
    /\ g_pc' = "exported"
    /\ UNCHANGED << GFrame, g_messages, g_registry, g_arg, g_source, g_added,
                    g_checked, g_errors >>

\* ------------------------------------- GmailExtractor and validate_message
MaxParts == 2        \* parts of a multipart e-mail

\* Payloads of the parts of an e-mail, as their characters.
Payloads ==
    { << >>, << " " >>, << "h", "i" >>, << "<", "p", ">" >>,
      << "<", "p", ">", "h", "i" >> }

PartTypes == { "text/plain", "text/html", "application/pdf" }

Parts == [ type : PartTypes, payload : Payloads ]

\* An e-mail of one part, or a multipart e-mail with its parts in order.
Emls ==
    { [ multipart |-> FALSE, parts |-> << part >> ] : part \in Parts }
    \cup UNION { { [ multipart |-> TRUE, parts |-> parts ] :
                     parts \in [ 1..n -> Parts ] } : n \in 0..MaxParts }

\* str.strip(): the text without the blanks at its two ends.
RECURSIVE lstrip(_)
lstrip(text) ==
    IF Len(text) > 0 /\ Head(text) = " " THEN lstrip(Tail(text)) ELSE text

RECURSIVE rstrip(_)
rstrip(text) ==
    IF Len(text) > 0 /\ text[Len(text)] = " "
    THEN rstrip(SubSeq(text, 1, Len(text) - 1)) ELSE text

strip(text) == rstrip(lstrip(text))

\* Where the tag that starts at the head of text ends, 0 if none does:
\* '<', one character or more other than '>', then '>'.
tag_end(text) ==
    LET closing == { j \in 2..Len(text) : text[j] = ">" }
    IN  IF Len(text) > 0 /\ Head(text) = "<" /\ closing # {}
            /\ (CHOOSE j \in closing : \A k \in closing : j <= k) >= 3
        THEN CHOOSE j \in closing : \A k \in closing : j <= k
        ELSE 0

\* re.sub(r'<[^>]+>', '', html_body), gmail_extractor 325.
RECURSIVE remove_tags(_)
remove_tags(text) ==
    IF Len(text) = 0 THEN << >>
    ELSE IF tag_end(text) > 0
    THEN remove_tags(SubSeq(text, tag_end(text) + 1, Len(text)))
    ELSE << Head(text) >> \o remove_tags(Tail(text))

\* The loop over msg.walk(), gmail_extractor 309-329: the first text/plain
\* or text/html part with a payload gives the body and ends the loop.
RECURSIVE walk_body(_)
walk_body(parts) ==
    IF Len(parts) = 0 THEN << >>
    ELSE IF Head(parts).type = "text/plain" /\ Len(Head(parts).payload) > 0
    THEN Head(parts).payload
    ELSE IF Head(parts).type = "text/html" /\ Len(Head(parts).payload) > 0
    THEN remove_tags(Head(parts).payload)
    ELSE walk_body(Tail(parts))

\* _extract_body, gmail_extractor 303-341.
extract_body(eml) ==
    strip(IF eml.multipart THEN walk_body(eml.parts)
          ELSE IF eml.parts[1].type = "text/plain"
          THEN eml.parts[1].payload
          ELSE << >>)

\* _parse_eml_file, gmail_extractor 187-298: the Message built from an
\* e-mail; its timestamp comes from datetime.fromtimestamp.
parse_eml_file(eml, msg_id, at) ==
    [ message_id |-> msg_id, timestamp |-> [ at |-> at, aware |-> FALSE ],
      sender |-> ContactA, recipients |-> << >>,
      body |-> extract_body(eml) ]

ParsedMessages ==
    { parse_eml_file(eml, msg_id, at) :
        eml \in Emls, msg_id \in MessageIds, at \in 1..MaxStamp }

\* extract_all, gmail_extractor 394-396 and 409-417: an EML file is parsed
\* and the message, if there is one, is added to the ledger.  A file that
\* does not match the target addresses gives None.
GParse ==
    /\ g_pc = "open"
    /\ Len(g_messages) < MaxLedger
    /\ \E message \in ParsedMessages, matches \in BOOLEAN :
        \E r \in { add_message(g_start_date, g_messages, g_registry, message) } :
            IF matches
            THEN /\ g_messages' = r.messages
                 /\ g_registry' = r.registry
                 /\ g_added' = r.how
                 /\ g_arg' = message
            ELSE /\ g_added' = "None"
                 /\ g_arg' = NoLedgerMessage
                 /\ UNCHANGED << g_messages, g_registry >>
    /\ g_source' = "gmail"
    /\ UNCHANGED << GFrame, g_pc, g_timeline, g_checked, g_errors >>

\* A value of the key 'body' of a message dictionary: None or a string.
NoneBody == [ is_none |-> TRUE, text |-> << >> ]
DictBodies ==
    { NoneBody } \cup { [ is_none |-> FALSE, text |-> text ] :
                          text \in { << >>, << " " >>, << "h", "i" >> } }

\* `not message['body']`.
falsy(body) == body.is_none \/ Len(body.text) = 0

\* The values a message dictionary may hold under each key.
DictValues(key) ==
    CASE key = "body" -> DictBodies
      [] key = "message_id" -> { "gcal:e1", "no colon" }
      [] key = "platform" -> { GcalPlatform, "Bad Platform" }
      [] key = "timestamp" -> { "2024-01-01T12:00:00", "yesterday" }
      [] key = "sender" ->
            { [ k \in { "platform_id", "platform" } |-> GcalPlatform ],
              [ k \in { "platform" } |-> GcalPlatform ] }

RequiredFields == << "message_id", "platform", "timestamp", "sender", "body" >>

\* The message dictionaries handed to validate_message: any of the required
\* keys may be missing.
RECURSIVE dicts_over(_)
dicts_over(fields) ==
    IF Len(fields) = 0 THEN { << >> }
    ELSE LET rest == dicts_over(Tail(fields))
         IN  rest \cup { (Head(fields) :> value) @@ dict :
                           value \in DictValues(Head(fields)), dict \in rest }

MessageDicts == dicts_over(RequiredFields)

\* MESSAGE_ID_REGEX and TIMESTAMP_REGEX, validators.py 16-17.
validate_message_id(message_id) == message_id = "gcal:e1"
validate_timestamp(timestamp) == timestamp = "2024-01-01T12:00:00"

RECURSIVE missing_fields(_, _)
missing_fields(message, fields) ==
    IF Len(fields) = 0 THEN << >>
    ELSE (IF Head(fields) \notin DOMAIN message
          THEN << "Missing required field" >> ELSE << >>)
         \o missing_fields(message, Tail(fields))

\* validate_message, validators.py 85-142: the list of errors, in order.
validate_message(message) ==
    missing_fields(message, RequiredFields)
    \o (IF /\ "message_id" \in DOMAIN message
           /\ ~ validate_message_id(message["message_id"])
        THEN << "Invalid message_id format" >> ELSE << >>)
    \o (IF /\ "platform" \in DOMAIN message
           /\ ~ validate_platform(message["platform"])
        THEN << "Invalid platform" >> ELSE << >>)
    \o (IF /\ "timestamp" \in DOMAIN message
           /\ ~ validate_timestamp(message["timestamp"])
        THEN << "Invalid timestamp format" >> ELSE << >>)
    \o (IF "sender" \in DOMAIN message
        THEN validate_contact(message["sender"]) ELSE << >>)
    \o (IF "body" \in DOMAIN message /\ falsy(message["body"])
        THEN << "body cannot be empty" >> ELSE << >>)

\* A caller validates the message dictionary it holds.
GValidate ==
    /\ g_pc = "validate"
    /\ g_errors' = validate_message(g_checked)
    /\ g_pc' = "validated"
    /\ UNCHANGED << GFrame, g_messages, g_registry, g_arg, g_source, g_added,
                    g_timeline, g_checked >>

ValidateMessageReady ==
    /\ g_pc = "validate"
    /\ g_start_date = 0
    /\ g_messages = << >>
    /\ g_registry = {}
    /\ g_arg = NoLedgerMessage
    /\ g_source = "-"
    /\ g_added = "-"
    /\ g_timeline = NoTimeline
    /\ g_checked \in MessageDicts
    /\ g_errors = << >>

\* UnifiedLedger(start_date), schema.py 135-145.
LedgerOpen ==
    /\ g_pc = "open"
    /\ g_start_date \in { 0, MaxStamp }
    /\ g_messages = << >>
    /\ g_registry = {}
    /\ g_arg = NoLedgerMessage
    /\ g_source = "-"
    /\ g_added = "-"
    /\ g_timeline = NoTimeline
    /\ g_checked = << >>
    /\ g_errors = << >>

InitLedger ==
    /\ ChunkedIdle /\ RobustIdle /\ LLMOff /\ HandlerOff
    /\ DbOff /\ ContactsOff /\ PhoneOff /\ RaceOff /\ CalendarOff /\ RetryOff /\ InsertOff
    /\ SafeDbOff
    /\ LedgerOpen \/ ValidateMessageReady

NextLedger ==
    \/ GAdd
    \/ GParse
    \/ GExport
    \/ GValidate

SpecLedger == InitLedger /\ [][NextLedger]_vars

\* C36: adding a message whose message_id the ledger holds already leaves
\* the ledger's messages and its contact registry as they were, and the
\* ledger never holds two messages with the same message_id.
C36_NoDuplicateIds ==
    /\ [](\A i, j \in 1..Len(g_messages) :
            g_messages[i].message_id = g_messages[j].message_id => i = j)
    /\ [][ ( /\ g_pc = "open" /\ g_pc' = "open"
             /\ \E i \in 1..Len(g_messages) :
                   g_messages[i].message_id = g_arg'.message_id )
           => /\ g_messages' = g_messages
              /\ g_registry' = g_registry ]_vars

\* C33: the exported messages are in chronological order and are the
\* messages of the ledger, each exactly once, for every ledger content.
occurrences(messages, message) ==
    Cardinality({ i \in 1..Len(messages) : messages[i] = message })

C33_ChronologicalExport ==
    g_pc = "exported" =>
        /\ g_timeline.kind = "list"
        /\ \A i \in 1..(Len(g_timeline.messages) - 1) :
            g_timeline.messages[i].timestamp.at
                <= g_timeline.messages[i + 1].timestamp.at
        /\ \A message \in LedgerMessages :
            occurrences(g_timeline.messages, message)
                = occurrences(g_messages, message)

\* C31: no message with an empty body is emitted by the Gmail extractor or
\* held by a ledger, and validate_message returns at least one error for a
\* message dictionary whose body is empty.
C31_NonEmptyBody ==
    /\ (g_source = "gmail" /\ g_added = "added") => Len(g_arg.body) > 0
    /\ \A i \in 1..Len(g_messages) : Len(g_messages[i].body) > 0
    /\ ( /\ g_pc = "validated"
         /\ "body" \in DOMAIN g_checked
         /\ Len(g_checked["body"].text) = 0 )
        => Len(g_errors) > 0

\* ---------------------------------------------- rows of the messages table
\* The four importers that INSERT INTO messages one source message at a
\* time: import_whatsapp_to_database.py import_messages, create_database.py
\* process_imessage_exports, import_emails.py
\* _import_conversation_messages, import_googletakeout_calendar.py
\* _import_calendar_event.

MaxSource == 3       \* messages one source holds
MaxFile == 2        \* HTML export files of an iMessage export directory
MaxTimestamp == 2   \* timestamps of source messages

BatchImporters == { "whatsapp", "imessage", "email", "googletakeoutcal" }

\* Ids a source item carries: a WhatsApp key_id, an iMessage message-guid,
\* an email Message-ID, a calendar uid.
NativeIds == { "k1", "k2" }

\* What the sources of one importer can hold.  A WhatsApp body comes from
\* _extract_message_body (never empty) and a calendar body ends in
\* '[Calendar Event]'; an iMessage bubble may be empty; the body of an email
\* Message is msg_dict.get('body', '[No content]'), None when the key holds
\* null.  An email Message always has a message_id; the HTML files of an
\* export directory are the only source with more than one file.
item_files(importer) == IF importer = "imessage" THEN 1..MaxFile ELSE { 1 }

item_natives(importer) ==
    IF importer = "email" THEN NativeIds ELSE { None, "k1" }

item_bodies(importer) ==
    CASE importer = "imessage" -> { "", "x" }
      [] importer = "email" -> { None, "x" }
      [] OTHER -> { "x" }

SourceItems(importer) ==
    [ file : item_files(importer), native : item_natives(importer),
      timestamp : 1..MaxTimestamp, body : item_bodies(importer) ]

\* The items of one file follow each other.
by_file(items) ==
    \A i, j \in DOMAIN items : i < j => items[i].file <= items[j].file

Sources(importer) ==
    { items \in UNION { [ 1..n -> SourceItems(importer) ] : n \in 1..MaxSource } :
        by_file(items) }

\* A platform_message_id: the source's own id, or one of the generated forms
\* auto_<n> and wa_<timestamp>.
native_id(text) == [ tag |-> "native", text |-> text, n |-> 0 ]
auto_id(n) == [ tag |-> "auto", text |-> "", n |-> n ]
wa_id(timestamp) == [ tag |-> "wa", text |-> "", n |-> timestamp ]

\* parse_imessage_html: the messages list len(messages) counts holds the
\* messages of this file that came before and have a body.
kept_before(items, i) ==
    Cardinality({ j \in 1..(i - 1) :
        items[j].file = items[i].file /\ items[j].body # "" })

\* The platform_message_id each importer gives item i of its source.
platform_message_id(importer, items, i) ==
    CASE importer = "imessage" ->
             IF items[i].native # None THEN native_id(items[i].native)
             ELSE auto_id(kept_before(items, i))
      [] importer = "whatsapp" ->
             IF items[i].native # None THEN native_id(items[i].native)
             ELSE wa_id(items[i].timestamp)
      [] importer = "googletakeoutcal" ->
             native_id(IF items[i].native # None THEN items[i].native
                       ELSE "unknown")
      [] OTHER -> native_id(items[i].native)

\* The sender's contacts row, created by the importer before the INSERT.
sender_of(importer) == 1

create_sender(table, contact_id) ==
    [ table EXCEPT !.contacts = @ \cup { contact_id } ]

\* INSERT INTO messages: the constraint of the table the row violates
\* (body NOT NULL, UNIQUE(platform, platform_message_id), the foreign key
\* of sender_id), "ok" when it violates none.
constraint_failed(table, row) ==
    IF row.body = None THEN "not_null"
    ELSE IF \E r \in table.messages : r.id = row.id THEN "unique"
    ELSE IF row.sender_id \notin table.contacts THEN "foreign_key"
    ELSE "ok"

\* The causes that raise sqlite3.IntegrityError.
IntegrityErrors == { "not_null", "unique", "foreign_key" }

execute_insert(table, row) ==
    IF constraint_failed(table, row) = "ok"
    THEN [ table EXCEPT !.messages = @ \cup { row } ]
    ELSE table

\* What each importer's loop does with the INSERT's outcome:
\* [counted, logged].  Every except clause catches sqlite3.IntegrityError
\* whatever its cause.
on_insert(importer, cause) ==
    CASE cause = "ok" -> [ counted |-> "imported", logged |-> "none" ]
      [] cause = "exists" -> [ counted |-> "skipped", logged |-> "exists" ]
      [] importer = "whatsapp" -> [ counted |-> "skipped", logged |-> "none" ]
      [] importer = "imessage" -> [ counted |-> "none", logged |-> "duplicate" ]
      [] importer = "email" -> [ counted |-> "skipped", logged |-> "duplicate" ]
      [] OTHER -> [ counted |-> "skipped", logged |-> "error" ]

IFrame == << cvars, rvars, lvars, hvars, dvars, kvars, pvars, qvars, evars,
             bvars, svars, gvars, i_importer, i_items >>

\* One pass of an importer's loop over item i_next; `checks` is the
\* importer's own SELECT for the id before the INSERT, `parsed` whether
\* the item reaches the loop at all.
import_one(parsed, checks) ==
    /\ i_pc = "loop"
    /\ i_next <= Len(i_items)
    /\ LET id == platform_message_id(i_importer, i_items, i_next)
           before == create_sender(i_table, sender_of(i_importer))
           row == [ id |-> id, item |-> i_next,
                    sender_id |-> sender_of(i_importer),
                    body |-> i_items[i_next].body ]
           cause == IF checks /\ \E r \in i_table.messages : r.id = id
                    THEN "exists"
                    ELSE constraint_failed(before, row)
           how == on_insert(i_importer, cause)
       IN  IF ~parsed
           THEN UNCHANGED << i_table, i_log >>
           ELSE /\ i_table' = IF cause = "exists" THEN i_table
                              ELSE execute_insert(before, row)
                /\ i_log' = Append(i_log,
                       [ item |-> i_next, id |-> id, cause |-> cause,
                         counted |-> how.counted, logged |-> how.logged ])
    /\ i_next' = i_next + 1
    /\ i_pc' = IF i_next = Len(i_items) THEN "done" ELSE "loop"
    /\ UNCHANGED IFrame

\* import_messages, one message.
IWhatsApp == i_importer = "whatsapp" /\ import_one(TRUE, FALSE)

\* parse_imessage_html and _import_messages, one message block: a block
\* without a body is not parsed.
IIMessage ==
    /\ i_importer = "imessage"
    /\ i_pc = "loop" /\ i_next <= Len(i_items)
    /\ import_one(i_items[i_next].body # "", FALSE)

\* _import_conversation_messages, one message.
IEmail == i_importer = "email" /\ import_one(TRUE, FALSE)

\* _import_calendar_event, one line of the raw file.
ITakeout == i_importer = "googletakeoutcal" /\ import_one(TRUE, TRUE)

InsertReady ==
    /\ i_pc = "loop"
    /\ i_importer \in BatchImporters
    /\ i_items \in Sources(i_importer)
    /\ i_next = 1
    /\ i_table = NoTable
    /\ i_log = << >>

InitInsert ==
    /\ ChunkedIdle /\ RobustIdle /\ LLMOff /\ HandlerOff
    /\ DbOff /\ ContactsOff /\ PhoneOff /\ RaceOff /\ CalendarOff /\ RetryOff
    /\ SafeDbOff /\ LedgerOff
    /\ InsertReady

NextInsert ==
    \/ IWhatsApp
    \/ IIMessage
    \/ IEmail
    \/ ITakeout

SpecInsert == InitInsert /\ [][NextInsert]_vars

same_message(items, i, j) ==
    \/ i = j
    \/ items[i].native # None /\ items[i].native = items[j].native

\* C35: two distinct source messages never get the same platform message
\* id, generated ids included, and no message is turned away because the
\* row of a different message holds its id.
C35_DistinctIds ==
    /\ \A k1, k2 \in DOMAIN i_log :
           i_log[k1].id = i_log[k2].id
               => same_message(i_items, i_log[k1].item, i_log[k2].item)
    /\ \A k \in DOMAIN i_log :
           i_log[k].cause \in { "unique", "exists" }
               => \A r \in i_table.messages :
                      r.id = i_log[k].id
                          => same_message(i_items, r.item, i_log[k].item)

====
